---- MODULE Spec2Model ----
(***************************************************************************)
(* QHASH: the hardened Lorenz hasher of package qhash.                     *)
(*                                                                         *)
(* Byte strings are sequences over 0..255.  The digests of crypto/sha256   *)
(* and crypto/sha512 are library code; they are modelled by deterministic  *)
(* digests of the library's output lengths (32, 48 and 64 bytes) that      *)
(* depend on every input byte and on its position.  The 128-bit big.Float  *)
(* arithmetic of the trajectory is modelled in fixed point: coordinates in *)
(* hundredths, sigma/rho/beta in hundredths, dt in thousandths.  The       *)
(* warm-up and capture loops run min(n, bound) steps.                      *)
(***************************************************************************)
EXTENDS Integers, Sequences, FiniteSets, TLC

VARIABLES
    ctor,     \* the last NewHardenedLorenzHasher call: argument, error, hasher
    pc,       \* where the running call stands: "idle", "stage", "finish"
    fr,       \* the running call's frame: the locals of compute
    ret,      \* what the last completed call returned, and what it did
    stored,   \* the stored result the caller holds (Nil: none)
    origin,   \* the data stored was computed from, and how it was altered since
    other,    \* the second goroutine sharing the hasher, while it does not run
    legacy    \* the digest text the caller kept from Hash (Nil: none)

vars == <<ctor, pc, fr, ret, stored, origin, other, legacy>>

(* ------------------------------ bounds ------------------------------ *)
MaxDataLen == 1
MaxSeed == 1
MaxWarmup == 150
MaxCapture == 4
MaxTamperPos == 1
MaxHour == 1

(* ------------------------- program constants ------------------------ *)
MinComputeTime == 100
DefaultMemoryHardness == 512
MaxIterations == 100000
MinIterations == 1000
Size256 == 256
Size384 == 384
Size512 == 512
Size1024 == 1024

\* A nil pointer to a struct, and a nil slice (len(nil) = 0).
Nil == [nil |-> TRUE]
NilBytes == <<>>
NoErr == "nil"

(* ------------------------------ bytes ------------------------------- *)
Byte == 0..255

\* Go's integer division truncates toward zero.
Quo(a, b) == IF a >= 0 THEN a \div b ELSE -((-a) \div b)

Min2(a, b) == IF a < b THEN a ELSE b

RECURSIVE XorBits(_, _, _)
XorBits(a, b, n) ==
    IF n = 0 THEN 0
    ELSE ((a + b) % 2) + 2 * XorBits(a \div 2, b \div 2, n - 1)

XorNibble == [a \in 0..15 |-> [b \in 0..15 |-> XorBits(a, b, 4)]]

\* The ^ operator on two bytes.
Xor(a, b) == 16 * XorNibble[a \div 16][b \div 16] + XorNibble[a % 16][b % 16]

\* append(a, b...)
Cat(a, b) == a \o b

\* make([]byte, n) filled by a loop: the finished slice, every element
\* computed once.
Filled(f) == f \o <<>>

(* ----------------------------- digests ------------------------------ *)
\* The sum of s[lo..hi], halving the range.
RECURSIVE SeqSum(_, _, _)
SeqSum(s, lo, hi) ==
    IF lo > hi THEN 0
    ELSE IF lo = hi THEN s[lo]
    ELSE LET mid == (lo + hi) \div 2
         IN  SeqSum(s, lo, mid) + SeqSum(s, mid + 1, hi)

\* The digest state after the message: every byte weighted by its position.
Absorb(m, iv) ==
    (iv + Len(m) * 977
     + SeqSum(Filled([i \in 1..Len(m) |->
                         (m[i] + 1) * (((i * i * 31 + i * 17) % 509) + 1)]),
              1, Len(m))) % 65521

Squeeze(acc, n, tag) ==
    Filled([k \in 1..n |->
        ((((acc + 1 + k * tag) * (acc \div 7 + 2 * k + 1)) % 65521) \div 8) % 256])

\* sha256.Sum256
Sum256(m) == Squeeze(Absorb(m, 17), 32, 29)

\* sha512.Sum384
Sum384(m) == Squeeze(Absorb(m, 41), 48, 53)

\* sha512.Sum512
Sum512(m) == Squeeze(Absorb(m, 73), 64, 89)

\* The digest selected by the hash size at checkpoints and in the
\* finalizer: the switch on hashSize.  No case matches another size, and
\* the slice stays nil.
SizedSum(hashSize, m) ==
    IF hashSize = Size256 THEN Sum256(m)
    ELSE IF hashSize = Size384 THEN Sum384(m)
    ELSE IF hashSize = Size512 THEN Sum512(m)
    ELSE IF hashSize = Size1024
         THEN LET h1 == Sum512(m) IN Cat(h1, Sum512(h1))
    ELSE <<>>

(* ----------------------------- base64 ------------------------------- *)
\* base64.StdEncoding.EncodeToString: symbols are alphabet indices 0..63,
\* the padding character '=' is 64.
\* Symbol q (0..3) of the group that encodes the bytes from b[i] on.
EncodeSymbol(b, i, q) ==
    LET n  == Len(b) - i + 1
        b2 == IF n >= 2 THEN b[i + 1] ELSE 0
        b3 == IF n >= 3 THEN b[i + 2] ELSE 0
    IN  IF q = 0 THEN b[i] \div 4
        ELSE IF q = 1 THEN (b[i] % 4) * 16 + b2 \div 16
        ELSE IF q = 2 THEN (IF n >= 2 THEN (b2 % 16) * 4 + b3 \div 64 ELSE 64)
        ELSE (IF n >= 3 THEN b3 % 64 ELSE 64)

EncodeToString(b) ==
    LET groups == (Len(b) + 2) \div 3
    IN  Filled([k \in 1..(4 * groups) |->
            EncodeSymbol(b, 3 * ((k - 1) \div 4) + 1, (k - 1) % 4)])

(* --------------------------- salt hierarchy ------------------------- *)
\* rand.Read(master): the bytes the random source delivers for draw rnd.
RandRead(rnd, n) ==
    Filled([i \in 1..n |-> (rnd * 97 + i * (2 * rnd + 31) + 13) % 256])

\* binary.BigEndian.PutUint64(tb, uint64(hr))
PutUint64(hr) ==
    Filled([i \in 1..8 |-> IF i <= 4 THEN 0 ELSE (hr \div (256 ^ (8 - i))) % 256])

\* n rounds of the loop of deriveSaltLR from c = [buf, salt]: hash buf,
\* append the digest's first byte, go on from the digest.
RECURSIVE SaltChain(_, _)
SaltChain(c, n) ==
    IF n = 0 THEN c
    ELSE IF n = 1
    THEN LET h == Sum256(c.buf) IN [buf |-> h, salt |-> Append(c.salt, h[1])]
    ELSE LET first == SaltChain(c, n \div 2)
         IN  IF Len(first.salt) < Len(c.salt) THEN first
             ELSE SaltChain(first, n - n \div 2)

\* deriveSaltLR produces a salt of the given size via chained SHA256.
deriveSaltLR(seed, size) ==
    IF size <= 0 \/ size > 1024 THEN NilBytes ELSE SaltChain([buf |-> seed, salt |-> <<>>], size).salt

RECURSIVE Flatten(_)
Flatten(ss) == IF ss = <<>> THEN <<>> ELSE Cat(Head(ss), Flatten(Tail(ss)))

\* A hierarchy whose seed is appended to from stage to stage: the seed of
\* stage i is master || 0 || 1 || ... || i.
GenerateSaltHierarchyRunningSeed(numStages, hashSize, randOK, rnd, hr) ==
    IF numStages <= 0 \/ numStages > 10
    THEN [err |-> "invalid number of stages", salt |-> Nil]
    ELSE
    LET master        == RandRead(rnd, Min2(32 + Quo(hashSize - 256, 256) * 16, 80))
        stageSaltSize == Min2(16 + Quo(hashSize - 256, 256) * 8, 48)
        stageSalts    == Filled([i \in 1..numStages |->
                             deriveSaltLR(Cat(master, [k \in 1..i |-> (k - 1) % 256]),
                                          stageSaltSize)])
        ts            == deriveSaltLR(PutUint64(hr),
                                      Min2(12 + Quo(hashSize - 256, 256) * 4, 28))
        meta          == deriveSaltLR(Cat(Cat(master, ts), Flatten(stageSalts)),
                                      Min2(24 + Quo(hashSize - 256, 256) * 8, 56))
    IN  IF ~randOK THEN [err |-> "master salt generation failed", salt |-> Nil]
        ELSE IF \E i \in 1..numStages : stageSalts[i] = NilBytes
        THEN [err |-> "stage salt generation failed", salt |-> Nil]
        ELSE IF ts = NilBytes THEN [err |-> "timestamp salt generation failed", salt |-> Nil]
        ELSE IF meta = NilBytes THEN [err |-> "meta salt generation failed", salt |-> Nil]
        ELSE [err |-> NoErr,
              salt |-> [MasterSalt |-> master, StageSalts |-> stageSalts,
                        TimestampSalt |-> ts, MetaSalt |-> meta,
                        HashSize |-> hashSize]]

\* GenerateSaltHierarchy builds Master, Stage, Timestamp, Meta salts.
\* randOK: whether rand.Read succeeds; rnd: its draw; hr: Unix time / 3600.
GenerateSaltHierarchy(numStages, hashSize, randOK, rnd, hr) ==
    IF numStages <= 0 \/ numStages > 10
    THEN [err |-> "invalid number of stages", salt |-> Nil]
    ELSE
    LET masterSize    == Min2(32 + Quo(hashSize - 256, 256) * 16, 80)
        master        == RandRead(rnd, masterSize)
        stageSaltSize == Min2(16 + Quo(hashSize - 256, 256) * 8, 48)
        stageSalts    == Filled([i \in 1..numStages |->
                             deriveSaltLR(Cat(master, <<(i - 1) % 256>>), stageSaltSize)])
        timestampSize == Min2(12 + Quo(hashSize - 256, 256) * 4, 28)
        ts            == deriveSaltLR(PutUint64(hr), timestampSize)
        metaSize      == Min2(24 + Quo(hashSize - 256, 256) * 8, 56)
        meta          == deriveSaltLR(Cat(Cat(master, ts), Flatten(stageSalts)), metaSize)
    IN  IF ~randOK THEN [err |-> "master salt generation failed", salt |-> Nil]
        ELSE IF \E i \in 1..numStages : stageSalts[i] = NilBytes
        THEN [err |-> "stage salt generation failed", salt |-> Nil]
        ELSE IF ts = NilBytes THEN [err |-> "timestamp salt generation failed", salt |-> Nil]
        ELSE IF meta = NilBytes THEN [err |-> "meta salt generation failed", salt |-> Nil]
        ELSE [err |-> NoErr,
              salt |-> [MasterSalt |-> master, StageSalts |-> stageSalts,
                        TimestampSalt |-> ts, MetaSalt |-> meta,
                        HashSize |-> hashSize]]

(* ------------------------------ seeding ----------------------------- *)
\* mk(off) of seedBig: the 8-byte window at off as a value of [-20, 20),
\* in hundredths, from the window's 16 leading bits.
SeedCoord(h, off) == ((h[off + 1] * 256 + h[off + 2]) * 4000) \div 65536 - 2000

\* seedBig derives three values in [-20,20) from data||salt.
seedBig(data, salt) ==
    IF Len(data) = 0 \/ Len(salt) = 0
    THEN [err |-> "empty input data", x |-> 0, y |-> 0, z |-> 0]
    ELSE LET h == Sum256(Cat(data, salt))
         IN  [err |-> NoErr, x |-> SeedCoord(h, 0), y |-> SeedCoord(h, 8),
              z |-> SeedCoord(h, 16)]

(* ----------------------------- trajectory --------------------------- *)
\* Coordinates beyond this magnitude (in units) run away; stands for the
\* 1e10 of lorenzStep within the integer width.
CoordLimit == 400

Abs(a) == IF a < 0 THEN -a ELSE a

\* lorenzStep performs one step of Lorenz system evolution; s = <<x, y, z>>.
lorenzStep(s, sigma, rho, beta, dt) ==
    LET x  == s[1]
        y  == s[2]
        z  == s[3]
        dx == Quo(sigma * (y - x), 100)
        dy == Quo(x * (rho - z), 100) - y
        dz == Quo(x * y, 100) - Quo(beta * z, 100)
        nx == x + Quo(dx * dt, 1000)
        ny == y + Quo(dy * dt, 1000)
        nz == z + Quo(dz * dt, 1000)
    IN  IF Abs(nx) > CoordLimit * 100 THEN [err |-> "x coordinate overflow", s |-> <<nx, ny, nz>>]
        ELSE IF Abs(ny) > CoordLimit * 100 THEN [err |-> "y coordinate overflow", s |-> <<nx, ny, nz>>]
        ELSE IF Abs(nz) > CoordLimit * 100 THEN [err |-> "z coordinate overflow", s |-> <<nx, ny, nz>>]
        ELSE [err |-> NoErr, s |-> <<nx, ny, nz>>]

\* The fractional part of c * 2^shift (c in hundredths) scaled to a byte.
FracByte(c, shift) ==
    LET m    == ((Abs(c) % 100) * ((2 ^ shift) % 100)) % 100
        frac == IF c >= 0 \/ m = 0 THEN m ELSE 100 - m
    IN  ((frac * 256) \div 100) % 256

\* discretize extracts one byte from f by taking its fractional part.
discretize(f) == FracByte(f, 0)

\* discretizeWithShift extracts a byte from f with a bit shift.
discretizeWithShift(f, shift) == FracByte(f, shift)

\* A capturing loop that takes the unshifted bytes only.
ExtractBaseOnly(s, outSize) == <<discretize(s[1]), discretize(s[2]), discretize(s[3])>>

\* The bytes one capturing iteration appends to the stream.
Extract(s, outSize) ==
    LET base == <<discretize(s[1]), discretize(s[2]), discretize(s[3])>>
        more(sh) == <<discretizeWithShift(s[1], sh), discretizeWithShift(s[2], sh),
                      discretizeWithShift(s[3], sh)>>
    IN  base \o (IF outSize >= 48 THEN more(8) ELSE <<>>)
             \o (IF outSize >= 64 THEN more(16) ELSE <<>>)
             \o (IF outSize >= 128 THEN more(24) ELSE <<>>)

\* The largest magnitude among p and the coordinates of s.
Peak(p, s) ==
    LET m(a, b) == IF a > b THEN a ELSE b
    IN  m(m(p, Abs(s[1])), m(Abs(s[2]), Abs(s[3])))

\* An iteration that passes over a failed step: the state stays as it
\* was and the loop goes on.
SteppedOver(r, t, msg) ==
    IF t.err # NoErr THEN [r EXCEPT !.steps = @ + 1]
    ELSE [r EXCEPT !.s = t.s, !.steps = @ + 1, !.peak = Peak(@, t.s)]

\* One iteration of either loop from r: the step, counted, and the error
\* msg wrapping the step's error if it failed; peak is the largest
\* magnitude over the states the loop went on from.
Stepped(r, t, msg) ==
    IF t.err # NoErr
    THEN [r EXCEPT !.err = msg, !.cause = t.err, !.s = t.s, !.steps = @ + 1]
    ELSE [r EXCEPT !.s = t.s, !.steps = @ + 1, !.peak = Peak(@, t.s)]

\* n iterations of the warm-up loop from r = [err, s, ...]: nothing
\* captured, and nothing done once a step has failed.
RECURSIVE WarmUp(_, _, _, _, _, _)
WarmUp(r, n, sigma, rho, beta, dt) ==
    IF n = 0 THEN r
    ELSE IF n = 1
    THEN IF r.err # NoErr THEN r
         ELSE Stepped(r, lorenzStep(r.s, sigma, rho, beta, dt), "warm-up step failed")
    ELSE LET first == WarmUp(r, n \div 2, sigma, rho, beta, dt)
         IN  IF first.err # NoErr THEN first
             ELSE WarmUp(first, n - n \div 2, sigma, rho, beta, dt)

\* The capturing loop after the step of one iteration left it as t: the
\* bytes of the new state appended to the stream.
Captured(t, outSize) ==
    IF t.err # NoErr THEN t ELSE [t EXCEPT !.stream = @ \o Extract(t.s, outSize)]

\* n iterations of the capturing loop from r = [err, s, stream, ...]: each
\* appends to the stream, and nothing is done once a step has failed.
RECURSIVE Capture(_, _, _, _, _, _, _)
Capture(r, n, sigma, rho, beta, dt, outSize) ==
    IF n = 0 THEN r
    ELSE IF n = 1
    THEN IF r.err # NoErr THEN r
         ELSE Captured(Stepped(r, lorenzStep(r.s, sigma, rho, beta, dt),
                               "iteration failed"), outSize)
    ELSE LET first == Capture(r, n \div 2, sigma, rho, beta, dt, outSize)
         IN  IF first.err # NoErr THEN first
             ELSE Capture(first, n - n \div 2, sigma, rho, beta, dt, outSize)

\* The XOR-fold of the stream into outSize bytes (rounds 1 to 5).
XorFold(stream, outSize) ==
    LET L == Len(stream)
        at(i, k) == stream[((i * k) % L) + 1]
        r12(i) == Xor(Xor(at(i, 1), at(i, 7)), Xor(at(i, 11), at(i, 13)))
        r3(i)  == IF outSize >= 48 THEN Xor(at(i, 17), at(i, 19)) ELSE 0
        r4(i)  == IF outSize >= 64 THEN Xor(at(i, 23), at(i, 29)) ELSE 0
        r5(i)  == IF outSize >= 128 THEN Xor(at(i, 31), at(i, 37)) ELSE 0
    IN  Filled([j \in 1..outSize |->
            Xor(Xor(r12(j - 1), r3(j - 1)), Xor(r4(j - 1), r5(j - 1)))])

\* A *big.Float argument: nil, or a pointer to the value v.
NilRef == [nil |-> TRUE, v |-> 0]

Ref(v) == [nil |-> FALSE, v |-> v]

\* What TrajectoryToHashBig returns, ([]byte, error), with what the call
\* did: the Lorenz steps made, those of the warm-up among them, the bytes
\* appended to the stream, the last state and the largest magnitude of
\* the states before it.
TrajectoryReturn(err, bytes, w, c) ==
    [err |-> err, bytes |-> bytes,
     cause |-> IF w.err # NoErr THEN w.cause ELSE c.cause,
     steps |-> w.steps + c.steps, warmSteps |-> w.steps,
     streamLen |-> Len(c.stream), last |-> c.s,
     peak |-> IF w.peak > c.peak THEN w.peak ELSE c.peak]

\* The loops' state before the first iteration.
LoopStart(s) ==
    [err |-> NoErr, cause |-> NoErr, s |-> s, steps |-> 0, peak |-> Peak(0, s),
     stream |-> <<>>]

\* A loop that was not entered, the state being s.
NotEntered(s) == [LoopStart(s) EXCEPT !.peak = 0]

\* A return before the loops.
Rejected(err) ==
    TrajectoryReturn(err, NilBytes, NotEntered(<<0, 0, 0>>), NotEntered(<<0, 0, 0>>))

\* The end of TrajectoryToHashBig, the loops having ended as w and c: the
\* stream folded into outSize bytes.
Folded(w, c, outSize) ==
    IF c.err # NoErr THEN TrajectoryReturn(c.err, NilBytes, w, c)
    ELSE IF Len(c.stream) = 0
    THEN TrajectoryReturn("empty stream generated", NilBytes, w, c)
    ELSE TrajectoryReturn(NoErr, XorFold(c.stream, outSize), w, c)

\* TrajectoryToHashBig from the capturing loop on, the warm-up loop having
\* ended as w.
Streamed(w, sigma, rho, beta, dt, iterations, outSize) ==
    IF w.err # NoErr THEN TrajectoryReturn(w.err, NilBytes, w, NotEntered(w.s))
    ELSE Folded(w, Capture(LoopStart(w.s), Min2(iterations, MaxCapture),
                           sigma, rho, beta, dt, outSize), outSize)

\* TrajectoryToHashBig after the validation: the warm-up loop, the
\* capturing loop, the fold.
Evolve(x, y, z, sigma, rho, beta, dt, iterations, discard, outSize) ==
    Streamed(WarmUp(LoopStart(<<x, y, z>>), Min2(discard, MaxWarmup),
                    sigma, rho, beta, dt),
             sigma, rho, beta, dt, iterations, outSize)

\* A validation without the bounds on iterations.
TrajectoryToHashBigAnyIterations(x0, y0, z0, sigma, rho, beta, dt, iterations, discard, outSize) ==
    IF x0.nil \/ y0.nil \/ z0.nil \/ sigma.nil \/ rho.nil \/ beta.nil \/ dt.nil
    THEN Rejected("nil parameters")
    ELSE IF outSize <= 0 \/ outSize > 128
    THEN Rejected("invalid output size")
    ELSE IF sigma.v <= 0 \/ sigma.v > 10000
    THEN Rejected("sigma parameter out of range")
    ELSE IF rho.v <= 0 \/ rho.v > 10000
    THEN Rejected("rho parameter out of range")
    ELSE IF beta.v <= 0 \/ beta.v > 10000
    THEN Rejected("beta parameter out of range")
    ELSE IF dt.v <= 0 \/ dt.v > 100
    THEN Rejected("dt parameter out of range")
    ELSE Evolve(x0.v, y0.v, z0.v, sigma.v, rho.v, beta.v, dt.v, iterations, discard,
                outSize)

\* TrajectoryToHashBig evolves the Lorenz system and folds the captured
\* stream into outSize bytes.  sigma, rho, beta in hundredths, dt in
\* thousandths, the coordinates in hundredths.
TrajectoryToHashBig(x0, y0, z0, sigma, rho, beta, dt, iterations, discard, outSize) ==
    IF x0.nil \/ y0.nil \/ z0.nil \/ sigma.nil \/ rho.nil \/ beta.nil \/ dt.nil
    THEN Rejected("nil parameters")
    ELSE IF iterations < MinIterations \/ iterations > MaxIterations
    THEN Rejected("iterations out of safe range")
    ELSE IF outSize <= 0 \/ outSize > 128
    THEN Rejected("invalid output size")
    ELSE IF sigma.v <= 0 \/ sigma.v > 10000
    THEN Rejected("sigma parameter out of range")
    ELSE IF rho.v <= 0 \/ rho.v > 10000
    THEN Rejected("rho parameter out of range")
    ELSE IF beta.v <= 0 \/ beta.v > 10000
    THEN Rejected("beta parameter out of range")
    ELSE IF dt.v <= 0 \/ dt.v > 100
    THEN Rejected("dt parameter out of range")
    ELSE Evolve(x0.v, y0.v, z0.v, sigma.v, rho.v, beta.v, dt.v, iterations, discard,
                outSize)

(* ------------------------------ finalizer --------------------------- *)
\* lorenzMix: XOR with SHA-derived bytes
lorenzMix(data, salt) ==
    IF Len(data) = 0 \/ Len(salt) = 0 THEN [err |-> "empty input", out |-> NilBytes]
    ELSE LET h == Sum256(Cat(data, salt))
         IN  [err |-> NoErr,
              out |-> Filled([j \in 1..Len(data) |->
                                 Xor(data[j], h[((j - 1) % Len(h)) + 1])])]

\* A round 3 that adds the key byte before the two XORs.
HyperByteAddFirst(val, key, i) ==
    Xor(Xor((val + key[((i * 17) % Len(key)) + 1]) % 256,
            key[((i * 7) % Len(key)) + 1]),
        key[((i * 13) % Len(key)) + 1])

\* One output byte of hyperchaosMix at 0-based index i.
HyperByte(val, key, i) ==
    LET v1 == Xor(val, key[((i * 7) % Len(key)) + 1])
        v2 == Xor(v1, key[((i * 13) % Len(key)) + 1])
    IN  (v2 + key[((i * 17) % Len(key)) + 1]) % 256

\* hyperchaosMix: 4D chaotic mixing
hyperchaosMix(data, salt) ==
    IF Len(data) = 0 \/ Len(salt) = 0 THEN [err |-> "empty input", out |-> NilBytes]
    ELSE LET key == Sum256(salt)
         IN  [err |-> NoErr,
              out |-> Filled([j \in 1..Len(data) |-> HyperByte(data[j], key, j - 1)])]

\* The data bytes that meet the same byte of h in the inner loop, added
\* up: entry r is the sum of data[j] over the j with j % len(h) = r - 1.
ResidueSums(data, m) ==
    Filled([r \in 1..Min2(m, Len(data)) |->
        SeqSum(Filled([t \in 1..((Len(data) - r) \div m + 1) |-> data[(t - 1) * m + r]]),
               1, (Len(data) - r) \div m + 1)])

\* The sum over j of data[j] * h[(i+j) % len(h)], for the 0-based index i,
\* from the residue sums.
LatticeSum(sums, h, i) ==
    SeqSum(Filled([r \in 1..Len(sums) |-> sums[r] * h[((i + r - 1) % Len(h)) + 1]]),
           1, Len(sums))

\* latticeMix: Lattice-based mixing inspired by Learning With Errors
latticeMix(data, salt) ==
    IF Len(data) = 0 \/ Len(salt) = 0 THEN [err |-> "empty input", out |-> NilBytes]
    ELSE LET h    == Sum256(salt)
             sums == ResidueSums(data, Len(h))
         IN  [err |-> NoErr,
              out |-> Filled([j \in 1..Len(data) |->
                                 (LatticeSum(sums, h, j - 1)
                                  + h[(((j - 1) * 3) % Len(h)) + 1]) % 256])]

\* "Expand if needed": append Sum256(final) until outputSize bytes are there.
RECURSIVE Expand(_, _)
Expand(final, outputSize) ==
    IF Len(final) >= outputSize THEN final
    ELSE Expand(Cat(final, Sum256(final)), outputSize)

\* "Ensure exact output size"
ExactSize(final, outputSize) ==
    IF Len(final) > outputSize THEN SubSeq(final, 1, outputSize)
    ELSE IF Len(final) < outputSize THEN SubSeq(Expand(final, outputSize), 1, outputSize)
    ELSE final

\* A finalizer whose last round is always SHA-256 and that leaves the
\* length as that round gives it.
quantumFinalizeSum256(data, salt, hashSize) ==
    IF Len(data) = 0 \/ salt = Nil THEN [err |-> "invalid input", hash |-> NilBytes]
    ELSE [err |-> NoErr, hash |-> Sum256(Cat(data, salt.MasterSalt))]

\* quantumFinalize: Multi-round mixing for quantum resistance
quantumFinalize(data, salt, hashSize) ==
    IF Len(data) = 0 \/ salt = Nil THEN [err |-> "invalid input", hash |-> NilBytes]
    ELSE
    LET r1 == SizedSum(hashSize, Cat(data, salt.MasterSalt))
        r2 == lorenzMix(r1, salt.MetaSalt)
        r3 == hyperchaosMix(r2.out, salt.TimestampSalt)
        r4 == latticeMix(r3.out, salt.MasterSalt)
    IN  IF r2.err # NoErr THEN [err |-> "lorenz mix failed", hash |-> NilBytes]
        ELSE IF r3.err # NoErr THEN [err |-> "hyperchaos mix failed", hash |-> NilBytes]
        ELSE IF r4.err # NoErr THEN [err |-> "lattice mix failed", hash |-> NilBytes]
        ELSE [err |-> NoErr,
              hash |-> ExactSize(SizedSum(hashSize, r4.out), hashSize \div 8)]

(* ----------------------------- constructor -------------------------- *)
\* A LorenzStage: sigma, rho, beta in hundredths, dt in thousandths.
Stage(sigma, rho, beta, dt, iterations, id, description) ==
    [Sigma |-> sigma, Rho |-> rho, Beta |-> beta, Dt |-> dt,
     Iterations |-> iterations, StageID |-> id, Description |-> description]

\* The stage presets of NewHardenedLorenzHasher; no entry for another size.
stageConfigs(size) ==
    LET all == << Stage(1000, 2800, 267, 10, 2000, 1, "Classic"),
                  Stage(1600, 4560, 400, 8, 3000, 2, "Energetic"),
                  Stage(1250, 3520, 250, 12, 2500, 3, "Wide"),
                  Stage(850, 2480, 620, 15, 1800, 4, "Compact"),
                  Stage(1420, 3210, 380, 9, 3200, 5, "Extended-1"),
                  Stage(1170, 4130, 510, 11, 2800, 6, "Extended-2"),
                  Stage(930, 2670, 740, 13, 2200, 7, "Extended-3"),
                  Stage(1380, 3890, 290, 7, 3500, 8, "Extended-4") >>
    IN  IF size = Size256 THEN SubSeq(all, 1, 2)
        ELSE IF size = Size384 THEN SubSeq(all, 1, 3)
        ELSE IF size = Size512 THEN SubSeq(all, 1, 4)
        ELSE IF size = Size1024 THEN all
        ELSE <<>>

\* A validation that leaves the iteration count unchecked.
StageErrorNoIterations(stage) ==
    IF stage.Sigma <= 0 \/ stage.Sigma > 10000 THEN "sigma parameter invalid"
    ELSE IF stage.Rho <= 0 \/ stage.Rho > 10000 THEN "rho parameter invalid"
    ELSE IF stage.Beta <= 0 \/ stage.Beta > 10000 THEN "beta parameter invalid"
    ELSE IF stage.Dt <= 0 \/ stage.Dt > 100 THEN "dt parameter invalid"
    ELSE NoErr

\* "Validate stage parameters": the error of one stage, NoErr when valid.
StageError(stage) ==
    IF stage.Iterations < MinIterations \/ stage.Iterations > MaxIterations
    THEN "iterations out of safe range"
    ELSE IF stage.Sigma <= 0 \/ stage.Sigma > 10000 THEN "sigma parameter invalid"
    ELSE IF stage.Rho <= 0 \/ stage.Rho > 10000 THEN "rho parameter invalid"
    ELSE IF stage.Beta <= 0 \/ stage.Beta > 10000 THEN "beta parameter invalid"
    ELSE IF stage.Dt <= 0 \/ stage.Dt > 100 THEN "dt parameter invalid"
    ELSE NoErr

\* The validation loop over the stages: the first error, NoErr when none.
ValidateStages(stages) ==
    IF \A i \in 1..Len(stages) : StageError(stages[i]) = NoErr THEN NoErr
    ELSE StageError(stages[CHOOSE i \in 1..Len(stages) :
                               /\ StageError(stages[i]) # NoErr
                               /\ \A j \in 1..(i - 1) : StageError(stages[j]) = NoErr])

NewHardenedLorenzHasher(hashSize) ==
    IF hashSize \notin {Size256, Size384, Size512, Size1024}
    THEN [err |-> "unsupported hash size", hasher |-> Nil]
    ELSE IF ValidateStages(stageConfigs(hashSize)) # NoErr
    THEN [err |-> ValidateStages(stageConfigs(hashSize)), hasher |-> Nil]
    ELSE [err |-> NoErr,
          hasher |-> [stages |-> stageConfigs(hashSize),
                      memoryHardness |-> DefaultMemoryHardness,
                      minComputeTime |-> MinComputeTime,
                      hashSize |-> hashSize]]

(* ------------------------- adaptive parameters ---------------------- *)
\* deriveAdaptiveParameters creates deterministic parameters from input
\* (the float parameters in thousandths).
deriveAdaptiveParameters(data, salt) ==
    LET h == Sum256(Cat(data, salt))
    IN  [iteration_multiplier     |-> 800 + (h[1] * 400) \div 255,
         dt_scale                 |-> 900 + (h[2] * 200) \div 255,
         memory_multiplier        |-> 1000 + (h[3] * 1000) \div 255,
         sigma_perturbation       |-> (h[4] * 1000) \div 255 - 500,
         rho_perturbation         |-> (h[5] * 2000) \div 255 - 1000,
         beta_perturbation        |-> (h[6] * 500) \div 255 - 250,
         quantum_resistance_level |-> (h[7] % 4) + 1]

(* ------------------------------ compute ----------------------------- *)
\* The hasher the constructor returned (Nil when it returned an error).
hasher == ctor.hasher

\* h.stages[h.hashSize]
StagesOf(h) == h.stages

\* h.generateSalt()
generateSalt(h, randOK, rnd, hr) ==
    GenerateSaltHierarchy(Len(StagesOf(h)), h.hashSize, randOK, rnd, hr)

\* The frame of compute at its first statement: start := time.Now(), the
\* defensive copy of data, no checkpoint yet.
NewFrame(callOp, data, salt, params, saltCalls) ==
    [op |-> callOp, data |-> data, salt |-> salt, params |-> params,
     buf |-> data, idx |-> 0, checkpoints |-> <<>>,
     saltCalls |-> saltCalls, stagesRun |-> 0, runs |-> <<>>]

NoFrame == [op |-> "none"]

\* What one iteration of the stage loop did: the stage index, the buffer
\* and the salt seedBig was given, the arguments of TrajectoryToHashBig and
\* what it returned.
StageRun(idx, seedIn, master, iterations, discard, outSize, traj) ==
    [stage |-> idx, seedIn |-> seedIn, master |-> master, iterations |-> iterations,
     discard |-> discard, outSize |-> outSize, block |-> traj.bytes, err |-> traj.err,
     cause |-> traj.cause, steps |-> traj.steps, warmSteps |-> traj.warmSteps,
     streamLen |-> traj.streamLen, last |-> traj.last, peak |-> traj.peak]

\* What the stage loop body gives when it fails with err wrapping cause.
NoStage(err, cause, ran, run) ==
    [err |-> err, ran |-> ran, bytes |-> NilBytes, cp |-> Nil, cause |-> cause,
     run |-> run]

\* The stage loop body after TrajectoryToHashBig returned, run recording
\* the stage: the checkpoint of the block.
StageChecked(h, f, st, run) ==
    IF run.err # NoErr
    THEN NoStage("trajectory computation failed", run.err, TRUE, run)
    ELSE [err |-> NoErr, ran |-> TRUE, bytes |-> run.block,
          cp |-> [Stage |-> f.idx, Iteration |-> st.Iterations,
                  Hash |-> EncodeToString(SizedSum(h.hashSize, run.block)),
                  Size |-> h.hashSize],
          cause |-> NoErr, run |-> run]

\* The stage loop body after seedBig returned seed for the buffer buf: the
\* trajectory of stage st.
StageSeeded(h, f, st, buf, seed) ==
    IF seed.err # NoErr THEN NoStage("seed generation failed", seed.err, FALSE, Nil)
    ELSE StageChecked(h, f, st,
             StageRun(f.idx, buf, f.salt.MasterSalt, st.Iterations,
                      1000 + h.hashSize \div 4, h.hashSize \div 8,
                      TrajectoryToHashBig(Ref(seed.x), Ref(seed.y), Ref(seed.z),
                                          Ref(st.Sigma), Ref(st.Rho), Ref(st.Beta),
                                          Ref(st.Dt), st.Iterations,
                                          1000 + h.hashSize \div 4, h.hashSize \div 8)))

\* The stage loop body for stage st after the stage salt was appended,
\* giving buf.
StageSalted(h, f, st, buf) ==
    StageSeeded(h, f, st, buf, seedBig(buf, f.salt.MasterSalt))

\* A stage loop body without the check of the stage salts: a stage that
\* has none goes on with the buffer as it is.
StageOfUnchecked(h, f, st, running) ==
    StageSalted(h, f, st,
                Cat(running, IF f.idx < Len(f.salt.StageSalts)
                             THEN f.salt.StageSalts[f.idx + 1] ELSE <<>>))

\* The stage loop body for stage st and the running buffer running.
StageOf(h, f, st, running) ==
    IF f.idx >= Len(f.salt.StageSalts)
    THEN NoStage("insufficient stage salts", NoErr, FALSE, Nil)
    ELSE StageSalted(h, f, st, Cat(running, f.salt.StageSalts[f.idx + 1]))

\* The stage parameters with the adaptive parameters applied: dt scaled
\* by dt_scale, sigma, rho and beta perturbed.
Adapted(st, params) ==
    [st EXCEPT !.Sigma = @ + params.sigma_perturbation \div 10,
               !.Rho = @ + params.rho_perturbation \div 10,
               !.Beta = @ + params.beta_perturbation \div 10,
               !.Dt = Quo(@ * params.dt_scale, 1000)]

\* A stage loop body that feeds the adaptive parameters back into the
\* trajectory.
StageBodyAdaptive(h, f) ==
    StageOf(h, f, Adapted(StagesOf(h)[f.idx + 1], f.params), f.buf)

\* A stage loop body that seeds every stage from the original data.
StageBodyFromData(h, f) == StageOf(h, f, StagesOf(h)[f.idx + 1], f.data)

\* The body of the stage loop of compute for stage f.idx: the error, the
\* stage's output block and its checkpoint.
StageBody(h, f) == StageOf(h, f, StagesOf(h)[f.idx + 1], f.buf)

\* runtime.ReadMemStats: m.Alloc / 1024 as the runtime reports it.
MemReadings == {640}

\* The clock readings time.Since(start) can give after the finalizer, ms.
ElapsedReadings == {MinComputeTime - 60, MinComputeTime, MinComputeTime + 30}

\* A floor that sleeps the whole minimum whatever time was spent.
FloorSleepFull(h, dt) == h.minComputeTime

\* The time.Sleep of the floor: the duration slept for elapsed time dt.
FloorSleep(h, dt) == IF dt < h.minComputeTime THEN h.minComputeTime - dt ELSE 0

\* The HardenedSaltedHash compute returns.
Result(h, f, finalHash, computeTime, mem) ==
    [Hash |-> finalHash, Salt |-> f.salt, Checkpoints |-> f.checkpoints,
     ComputeTime |-> computeTime, MemoryUsed |-> mem, Parameters |-> f.params,
     Algorithm |-> <<"QHASH", h.hashSize>>, Version |-> "2.0",
     HashSize |-> h.hashSize]

\* A stage loop that drops the checkpoints.
AfterStageNoCheckpoint(f, r) ==
    [f EXCEPT !.buf = r.bytes, !.idx = @ + 1, !.stagesRun = @ + 1,
              !.runs = Append(@, r.run)]

\* A stage loop without the defensive copy, writing each block through the
\* caller's slice.
AfterStageInPlace(f, r) ==
    [f EXCEPT !.buf = r.bytes, !.data = r.bytes, !.idx = @ + 1,
              !.checkpoints = Append(@, r.cp), !.stagesRun = @ + 1,
              !.runs = Append(@, r.run)]

\* The frame after the stage loop body returned r without error: the
\* checkpoint appended, the block fed forward.
AfterStage(f, r) ==
    [f EXCEPT !.buf = r.bytes, !.idx = @ + 1, !.checkpoints = Append(@, r.cp),
              !.stagesRun = @ + 1, !.runs = Append(@, r.run)]

\* The stage loop of compute from frame f on: the first error, or the frame
\* after the last stage.
RECURSIVE RunStages(_, _)
RunStages(h, f) ==
    IF f.idx >= Len(StagesOf(h)) THEN [err |-> NoErr, f |-> f]
    ELSE LET r == StageBody(h, f)
         IN  IF r.err # NoErr THEN [err |-> r.err, f |-> f]
             ELSE RunStages(h, AfterStage(f, r))

\* compute, start to return, as one function of its arguments and of the
\* readings dt and mem of the clock and of the memory statistics.
compute(h, data, salt, params, dt, mem) ==
    LET run == RunStages(h, NewFrame("compute", data, salt, params, 0))
        q   == quantumFinalize(run.f.buf, salt, h.hashSize)
    IN  IF run.err # NoErr THEN [err |-> run.err, result |-> Nil]
        ELSE IF q.err # NoErr
        THEN [err |-> "quantum finalization failed", result |-> Nil]
        ELSE [err |-> NoErr,
              result |-> Result(h, run.f, q.hash, dt + FloorSleep(h, dt), mem)]

\* A verification that skips the loop over the checkpoints.
CheckpointsUnchecked(recomputed, st) == TRUE

\* "Verify checkpoints": the loop over the recomputed checkpoints.
CheckpointsMatch(recomputed, st) ==
    \A i \in 1..Len(recomputed.Checkpoints) :
        recomputed.Checkpoints[i].Hash = st.Checkpoints[i].Hash

\* A comparison of the whole structs, timing and memory fields included.
CompareWhole(recomputed, st) == recomputed = st

\* The comparison of VerifyHardenedHash once the recomputation succeeded.
Compare(recomputed, st) ==
    IF recomputed.Hash # st.Hash THEN FALSE
    ELSE IF Len(recomputed.Checkpoints) # Len(st.Checkpoints) THEN FALSE
    ELSE CheckpointsMatch(recomputed, st)

\* Checks of the stored result that look at the size before the salt.
StoredErrorSizeFirst(st, h) ==
    IF st # Nil /\ st.HashSize # h.hashSize THEN "hash size mismatch"
    ELSE IF st = Nil \/ st.Salt = Nil THEN "invalid stored hash"
    ELSE NoErr

\* The checks of VerifyHardenedHash on the stored result before anything is
\* recomputed: the error's message, NoErr when the stored result passes.
StoredError(st, h) ==
    IF st = Nil \/ st.Salt = Nil THEN "invalid stored hash"
    ELSE IF st.HashSize # h.hashSize THEN "hash size mismatch"
    ELSE NoErr

\* A verification that draws a new salt hierarchy as hashing does.
VerifySaltRegenerated(st, h, rnd, hr) == generateSalt(h, TRUE, rnd, hr).salt

\* The salt VerifyHardenedHash hands to compute.  The random source (draw
\* rnd) and the clock (hour hr) are at hand, as they are for every call.
VerifySalt(st, h, rnd, hr) == st.Salt

(* ------------------------- text, base64, JSON ----------------------- *)
\* A text is a sequence of character codes.  Text(s) is the text of the
\* string literal s: the JSON keys of the struct tags and the fixed strings
\* of the result.
Text(s) ==
    CASE s = "hash" -> <<104, 97, 115, 104>>
      [] s = "salt" -> <<115, 97, 108, 116>>
      [] s = "master_salt" -> <<109, 97, 115, 116, 101, 114, 95, 115, 97, 108, 116>>
      [] s = "stage_salts" -> <<115, 116, 97, 103, 101, 95, 115, 97, 108, 116, 115>>
      [] s = "timestamp_salt" -> <<116, 105, 109, 101, 115, 116, 97, 109, 112, 95, 115, 97, 108, 116>>
      [] s = "meta_salt" -> <<109, 101, 116, 97, 95, 115, 97, 108, 116>>
      [] s = "hash_size" -> <<104, 97, 115, 104, 95, 115, 105, 122, 101>>
      [] s = "checkpoints" -> <<99, 104, 101, 99, 107, 112, 111, 105, 110, 116, 115>>
      [] s = "stage" -> <<115, 116, 97, 103, 101>>
      [] s = "iteration" -> <<105, 116, 101, 114, 97, 116, 105, 111, 110>>
      [] s = "size" -> <<115, 105, 122, 101>>
      [] s = "compute_time_ns" -> <<99, 111, 109, 112, 117, 116, 101, 95, 116, 105, 109, 101, 95, 110, 115>>
      [] s = "memory_used_kb" -> <<109, 101, 109, 111, 114, 121, 95, 117, 115, 101, 100, 95, 107, 98>>
      [] s = "parameters" -> <<112, 97, 114, 97, 109, 101, 116, 101, 114, 115>>
      [] s = "beta_perturbation" -> <<98, 101, 116, 97, 95, 112, 101, 114, 116, 117, 114, 98, 97, 116, 105, 111, 110>>
      [] s = "dt_scale" -> <<100, 116, 95, 115, 99, 97, 108, 101>>
      [] s = "iteration_multiplier" -> <<105, 116, 101, 114, 97, 116, 105, 111, 110, 95, 109, 117, 108, 116, 105, 112, 108, 105, 101, 114>>
      [] s = "memory_multiplier" -> <<109, 101, 109, 111, 114, 121, 95, 109, 117, 108, 116, 105, 112, 108, 105, 101, 114>>
      [] s = "quantum_resistance_level" -> <<113, 117, 97, 110, 116, 117, 109, 95, 114, 101, 115, 105, 115, 116, 97, 110, 99, 101, 95, 108, 101, 118, 101, 108>>
      [] s = "rho_perturbation" -> <<114, 104, 111, 95, 112, 101, 114, 116, 117, 114, 98, 97, 116, 105, 111, 110>>
      [] s = "sigma_perturbation" -> <<115, 105, 103, 109, 97, 95, 112, 101, 114, 116, 117, 114, 98, 97, 116, 105, 111, 110>>
      [] s = "algorithm" -> <<97, 108, 103, 111, 114, 105, 116, 104, 109>>
      [] s = "version" -> <<118, 101, 114, 115, 105, 111, 110>>
      [] s = "QHASH-" -> <<81, 72, 65, 83, 72, 45>>
      [] s = "2.0" -> <<50, 46, 48>>
      [] s = "null" -> <<110, 117, 108, 108>>

\* The character of a base64 symbol (alphabet index, 64 for padding) ...
Char(sym) ==
    IF sym < 26 THEN 65 + sym
    ELSE IF sym < 52 THEN 97 + (sym - 26)
    ELSE IF sym < 62 THEN 48 + (sym - 52)
    ELSE IF sym = 62 THEN 43
    ELSE IF sym = 63 THEN 47
    ELSE 61

\* ... and the symbol of a character: -1 for a character outside the
\* alphabet.
Sym(c) ==
    IF c >= 65 /\ c <= 90 THEN c - 65
    ELSE IF c >= 97 /\ c <= 122 THEN c - 71
    ELSE IF c >= 48 /\ c <= 57 THEN c + 4
    ELSE IF c = 43 THEN 62
    ELSE IF c = 47 THEN 63
    ELSE IF c = 61 THEN 64
    ELSE -1

\* The text of a string of base64 symbols, and back.
Chars(syms) == Filled([i \in 1..Len(syms) |-> Char(syms[i])])

Syms(text) == Filled([i \in 1..Len(text) |-> Sym(text[i])])

\* base64.StdEncoding.EncodeToString as text.
EncodeText(b) == Chars(EncodeToString(b))

\* Byte j (from 1) that the symbols u decode to.
DecodeByte(u, j) ==
    LET g == 4 * ((j - 1) \div 3)
        r == (j - 1) % 3
    IN  IF r = 0 THEN Sym(u[g + 1]) * 4 + Sym(u[g + 2]) \div 16
        ELSE IF r = 1 THEN (Sym(u[g + 2]) % 16) * 16 + Sym(u[g + 3]) \div 4
        ELSE (Sym(u[g + 3]) % 4) * 64 + Sym(u[g + 4])

NotNewline(c) == c # 10 /\ c # 13

\* A decoder of the unpadded alphabet: a '=' is no symbol of it.
DecodeStringUnpadded(t) ==
    LET u == SelectSeq(t, NotNewline)
        n == Len(u)
        tail == n % 4
    IN  IF tail = 1 \/ \E i \in 1..n : Sym(u[i]) \notin 0..63
        THEN [err |-> "illegal base64 data", bytes |-> NilBytes]
        ELSE [err |-> NoErr,
              bytes |-> Filled([j \in 1..(3 * (n \div 4) + (IF tail = 0 THEN 0 ELSE tail - 1))
                                   |-> DecodeByte(u \o <<65, 65>>, j)])]

\* base64.StdEncoding.DecodeString: newlines are skipped, the length must
\* be a multiple of 4, '=' pads the last group only, every other character
\* must be of the alphabet.
DecodeString(t) ==
    LET u == SelectSeq(t, NotNewline)
        n == Len(u)
        pads == IF n > 0 /\ u[n] = 61 THEN (IF n > 1 /\ u[n - 1] = 61 THEN 2 ELSE 1)
                ELSE 0
    IN  IF n % 4 # 0 \/ \E i \in 1..(n - pads) : Sym(u[i]) \notin 0..63
        THEN [err |-> "illegal base64 data", bytes |-> NilBytes]
        ELSE [err |-> NoErr,
              bytes |-> Filled([j \in 1..(3 * (n \div 4) - pads) |-> DecodeByte(u, j)])]

\* strconv: the decimal digits of n >= 0, and of an integer.
RECURSIVE Digits(_)
Digits(n) == IF n < 10 THEN <<48 + n>> ELSE Append(Digits(n \div 10), 48 + (n % 10))

Decimal(n) == IF n < 0 THEN <<45>> \o Digits(-n) ELSE Digits(n)

\* A float64 (in thousandths) in its shortest decimal form.
Float(v) ==
    LET a  == Abs(v)
        fp == a % 1000
        frac == IF fp = 0 THEN <<>>
                ELSE IF fp % 100 = 0 THEN <<46, 48 + fp \div 100>>
                ELSE IF fp % 10 = 0 THEN <<46, 48 + fp \div 100, 48 + ((fp \div 10) % 10)>>
                ELSE <<46, 48 + fp \div 100, 48 + ((fp \div 10) % 10), 48 + (fp % 10)>>
    IN  (IF v < 0 THEN <<45>> ELSE <<>>) \o Digits(a \div 1000) \o frac

\* MarshalIndent(v, "", "  "): a line break and n spaces, the members of an
\* object or the elements of an array one per line, ": " after a key.
NL(n) == <<10>> \o [i \in 1..n |-> 32]

Quote(text) == <<34>> \o text \o <<34>>

RECURSIVE Join(_)
Join(items) ==
    IF items = <<>> THEN <<>>
    ELSE IF Len(items) = 1 THEN items[1]
    ELSE items[1] \o <<44>> \o Join(Tail(items))

Obj(n, members) ==
    <<123>> \o Join(Filled([i \in 1..Len(members) |-> NL(n + 2) \o members[i]]))
            \o NL(n) \o <<125>>

Arr(n, items) ==
    IF items = <<>> THEN <<91, 93>>
    ELSE <<91>> \o Join(Filled([i \in 1..Len(items) |-> NL(n + 2) \o items[i]]))
              \o NL(n) \o <<93>>

Member(key, value) == Quote(Text(key)) \o <<58, 32>> \o value

SaltJSON(n, salt) ==
    IF salt = Nil THEN Text("null")
    ELSE Obj(n, << Member("master_salt", Quote(EncodeText(salt.MasterSalt))),
                   Member("stage_salts",
                          Arr(n + 2, [i \in 1..Len(salt.StageSalts) |->
                                         Quote(EncodeText(salt.StageSalts[i]))])),
                   Member("timestamp_salt", Quote(EncodeText(salt.TimestampSalt))),
                   Member("meta_salt", Quote(EncodeText(salt.MetaSalt))),
                   Member("hash_size", Decimal(salt.HashSize)) >>)

CheckpointJSON(n, cp) ==
    Obj(n, << Member("stage", Decimal(cp.Stage)),
              Member("iteration", Decimal(cp.Iteration)),
              Member("hash", Quote(Chars(cp.Hash))),
              Member("size", Decimal(cp.Size)) >>)

\* The keys of a map are written in sorted order; the one int of the map
\* is written as an integer.
ParametersJSON(n, params) ==
    Obj(n, << Member("beta_perturbation", Float(params.beta_perturbation)),
              Member("dt_scale", Float(params.dt_scale)),
              Member("iteration_multiplier", Float(params.iteration_multiplier)),
              Member("memory_multiplier", Float(params.memory_multiplier)),
              Member("quantum_resistance_level", Decimal(params.quantum_resistance_level)),
              Member("rho_perturbation", Float(params.rho_perturbation)),
              Member("sigma_perturbation", Float(params.sigma_perturbation)) >>)

\* json.MarshalIndent(out, "", "  ") of a HardenedSaltedHash: byte slices
\* as base64 strings, ComputeTime in nanoseconds.
MarshalIndent(r) ==
    Obj(0, << Member("hash", Quote(EncodeText(r.Hash))),
              Member("salt", SaltJSON(2, r.Salt)),
              Member("checkpoints",
                     Arr(2, [i \in 1..Len(r.Checkpoints) |->
                                CheckpointJSON(4, r.Checkpoints[i])])),
              Member("compute_time_ns", Decimal(r.ComputeTime * 1000000)),
              Member("memory_used_kb", Decimal(r.MemoryUsed)),
              Member("parameters", ParametersJSON(2, r.Parameters)),
              Member("algorithm", Quote(Text("QHASH-") \o Decimal(r.Algorithm[2]))),
              Member("version", Quote(Text(r.Version))),
              Member("hash_size", Decimal(r.HashSize)) >>)

\* The decoder's cursor: position p in the text, k quotes consumed, and the
\* value v read last; ok is FALSE once the text was found malformed.
Fail == [ok |-> FALSE, p |-> 0, k |-> 0, v |-> 0]

Start == [ok |-> TRUE, p |-> 1, k |-> 0, v |-> 0]

IsSpace(c) == c = 32 \/ c = 10 \/ c = 13 \/ c = 9

IsDigit(c) == c >= 48 /\ c <= 57

RECURSIVE SkipSpace(_, _)
SkipSpace(T, p) == IF p <= Len(T) /\ IsSpace(T[p]) THEN SkipSpace(T, p + 1) ELSE p

\* Whether the next character after white space is ch.
Ahead(T, c, ch) == c.ok /\ SkipSpace(T, c.p) <= Len(T) /\ T[SkipSpace(T, c.p)] = ch

\* The punctuation character ch.
Lit(T, c, ch) ==
    IF Ahead(T, c, ch) THEN [c EXCEPT !.p = SkipSpace(T, c.p) + 1] ELSE Fail

\* The positions of the quotes of the text, in order.
Quotes(T) ==
    LET IsQuote(i) == T[i] = 34
    IN  SelectSeq([i \in 1..Len(T) |-> i], IsQuote)

\* A string: from the next quote to the one after it (no escape is read).
ReadString(T, Q, c) ==
    IF Ahead(T, c, 34) /\ c.k + 2 <= Len(Q) /\ Q[c.k + 1] = SkipSpace(T, c.p)
    THEN [ok |-> TRUE, p |-> Q[c.k + 2] + 1, k |-> c.k + 2,
          v |-> SubSeq(T, Q[c.k + 1] + 1, Q[c.k + 2] - 1)]
    ELSE Fail

RECURSIVE DigitsEnd(_, _)
DigitsEnd(T, p) == IF p <= Len(T) /\ IsDigit(T[p]) THEN DigitsEnd(T, p + 1) ELSE p

RECURSIVE DigitsValue(_, _, _)
DigitsValue(T, a, b) == IF a > b THEN 0 ELSE DigitsValue(T, a, b - 1) * 10 + (T[b] - 48)

\* An integer.
ReadInt(T, c) ==
    IF ~c.ok THEN Fail
    ELSE LET q   == SkipSpace(T, c.p)
             neg == q <= Len(T) /\ T[q] = 45
             a   == IF neg THEN q + 1 ELSE q
             b   == DigitsEnd(T, a)
         IN  IF b = a THEN Fail
             ELSE [c EXCEPT !.p = b,
                            !.v = (IF neg THEN -1 ELSE 1) * DigitsValue(T, a, b - 1)]

\* A value of the text as the decoder scans it: t is its kind ("string",
\* "int" for a number without a fraction, "frac" for one with, "object",
\* "array", "null"), v what it holds: an "int" its integer, a "frac" its
\* thousandths, an object the sequence of its <<key, value>> members, an
\* array the sequence of its elements.
Value(t, v) == [t |-> t, v |-> v]

\* The fraction of a number whose integer part i was read: digits a..b-1.
ReadFraction(T, i, neg, a, b) ==
    IF b = a THEN Fail
    ELSE [i EXCEPT !.p = b,
                   !.v = Value("frac",
                             (IF neg THEN -1 ELSE 1)
                             * (Abs(i.v) * 1000
                                + DigitsValue(T, a, Min2(b - 1, a + 2))
                                  * (10 ^ (3 - Min2(b - a, 3)))))]

\* A number whose integer part i starts at q.
ReadNumberFrom(T, q, i) ==
    IF ~i.ok THEN Fail
    ELSE IF i.p <= Len(T) /\ T[i.p] = 46
    THEN ReadFraction(T, i, T[q] = 45, i.p + 1, DigitsEnd(T, i.p + 1))
    ELSE [i EXCEPT !.v = Value("int", i.v)]

ReadNumber(T, c) ==
    IF ~c.ok THEN Fail ELSE ReadNumberFrom(T, SkipSpace(T, c.p), ReadInt(T, c))

\* The literal null, which starts at q.
ReadNull(T, c, q) ==
    IF q + 3 <= Len(T) /\ SubSeq(T, q, q + 3) = Text("null")
    THEN [c EXCEPT !.p = q + 4, !.v = Value("null", 0)]
    ELSE Fail

\* The string s as a value.
StringValue(s) == IF s.ok THEN [s EXCEPT !.v = Value("string", s.v)] ELSE Fail

\* The closing character ch of an object or an array of the members acc.
Close(T, c, ch, t, acc) == [Lit(T, c, ch) EXCEPT !.v = Value(t, acc)]

RECURSIVE ReadValue(_, _, _)
RECURSIVE ReadMembers(_, _, _, _)
RECURSIVE ReadElements(_, _, _, _)

\* After the member key: e: a comma and more members, or the '}'.
AfterMember(T, Q, acc, key, e) ==
    IF ~e.ok THEN Fail
    ELSE IF Ahead(T, e, 44)
    THEN ReadMembers(T, Q, Lit(T, e, 44), Append(acc, <<key, e.v>>))
    ELSE IF Ahead(T, e, 125) THEN Close(T, e, 125, "object", Append(acc, <<key, e.v>>))
    ELSE Fail

\* The member whose key was read: its colon and its value.
ReadMember(T, Q, acc, key) ==
    IF ~key.ok THEN Fail
    ELSE AfterMember(T, Q, acc, key.v, ReadValue(T, Q, Lit(T, key, 58)))

\* The members of an object after its '{' or after a comma.
ReadMembers(T, Q, c, acc) ==
    IF Ahead(T, c, 125) /\ acc = <<>> THEN Close(T, c, 125, "object", acc)
    ELSE ReadMember(T, Q, acc, ReadString(T, Q, c))

\* After the element e: a comma and more elements, or the ']'.
AfterElement(T, Q, acc, e) ==
    IF ~e.ok THEN Fail
    ELSE IF Ahead(T, e, 44) THEN ReadElements(T, Q, Lit(T, e, 44), Append(acc, e.v))
    ELSE IF Ahead(T, e, 93) THEN Close(T, e, 93, "array", Append(acc, e.v))
    ELSE Fail

\* The elements of an array after its '[' or after a comma.
ReadElements(T, Q, c, acc) ==
    IF Ahead(T, c, 93) /\ acc = <<>> THEN Close(T, c, 93, "array", acc)
    ELSE AfterElement(T, Q, acc, ReadValue(T, Q, c))

\* The next value of the text.
ReadValue(T, Q, c) ==
    IF Ahead(T, c, 34) THEN StringValue(ReadString(T, Q, c))
    ELSE IF Ahead(T, c, 123) THEN ReadMembers(T, Q, Lit(T, c, 123), <<>>)
    ELSE IF Ahead(T, c, 91) THEN ReadElements(T, Q, Lit(T, c, 91), <<>>)
    ELSE IF Ahead(T, c, 110) THEN ReadNull(T, c, SkipSpace(T, c.p))
    ELSE ReadNumber(T, c)

\* A field of a struct as the decoder sets it: ok is FALSE when the value
\* cannot be stored in the field's type.
Set(v) == [ok |-> TRUE, v |-> v]

Unset == [ok |-> FALSE, v |-> 0]

\* Whether the object o has a member key, and its value: the last such
\* member is the one that stays.
Has(o, key) == \E i \in 1..Len(o.v) : o.v[i][1] = Text(key)

Get(o, key) ==
    o.v[CHOOSE i \in 1..Len(o.v) :
            /\ o.v[i][1] = Text(key)
            /\ \A j \in (i + 1)..Len(o.v) : o.v[j][1] # Text(key)][2]

\* Whether the field keeps its zero value: no member, or a null.
Zero(o, key) == ~Has(o, key) \/ Get(o, key).t = "null"

\* A []byte from the value e: a string of base64.
BytesOf(e) ==
    IF e.t = "string" /\ DecodeString(e.v).err = NoErr
    THEN Set(DecodeString(e.v).bytes) ELSE Unset

BytesField(o, key) == IF Zero(o, key) THEN Set(NilBytes) ELSE BytesOf(Get(o, key))

\* A [][]byte from the value e.
BytesListOf(e) ==
    IF e.t = "array" /\ \A i \in 1..Len(e.v) : e.v[i].t = "null" \/ BytesOf(e.v[i]).ok
    THEN Set(Filled([i \in 1..Len(e.v) |->
                        IF e.v[i].t = "null" THEN NilBytes ELSE BytesOf(e.v[i]).v]))
    ELSE Unset

BytesListField(o, key) == IF Zero(o, key) THEN Set(<<>>) ELSE BytesListOf(Get(o, key))

\* An int or an int64 from the value e.
IntOf(e) == IF e.t = "int" THEN Set(e.v) ELSE Unset

IntField(o, key) == IF Zero(o, key) THEN Set(0) ELSE IntOf(Get(o, key))

\* A string from the value e.
StringOf(e) == IF e.t = "string" THEN Set(e.v) ELSE Unset

StringField(o, key) == IF Zero(o, key) THEN Set(<<>>) ELSE StringOf(Get(o, key))

\* The HierarchicalSalt of the fields read.
SaltOfFields(master, stages, ts, meta, size) ==
    IF master.ok /\ stages.ok /\ ts.ok /\ meta.ok /\ size.ok
    THEN Set([MasterSalt |-> master.v, StageSalts |-> stages.v,
              TimestampSalt |-> ts.v, MetaSalt |-> meta.v, HashSize |-> size.v])
    ELSE Unset

\* A *HierarchicalSalt: nil, or the struct of the object e.
SaltOf(e) ==
    IF e.t # "object" THEN Unset
    ELSE SaltOfFields(BytesField(e, "master_salt"), BytesListField(e, "stage_salts"),
                      BytesField(e, "timestamp_salt"), BytesField(e, "meta_salt"),
                      IntField(e, "hash_size"))

SaltField(o, key) == IF Zero(o, key) THEN Set(Nil) ELSE SaltOf(Get(o, key))

\* The TrajectoryCheckpoint of the fields read.
CheckpointOfFields(stage, iter, hash, size) ==
    IF stage.ok /\ iter.ok /\ hash.ok /\ size.ok
    THEN Set([Stage |-> stage.v, Iteration |-> iter.v, Hash |-> Syms(hash.v),
              Size |-> size.v])
    ELSE Unset

CheckpointOf(e) ==
    IF e.t # "object" THEN Unset
    ELSE CheckpointOfFields(IntField(e, "stage"), IntField(e, "iteration"),
                            StringField(e, "hash"), IntField(e, "size"))

\* A []TrajectoryCheckpoint from the value e.
CheckpointsOf(e) ==
    IF e.t = "array" /\ \A i \in 1..Len(e.v) : CheckpointOf(e.v[i]).ok
    THEN Set(Filled([i \in 1..Len(e.v) |-> CheckpointOf(e.v[i]).v]))
    ELSE Unset

CheckpointsField(o, key) == IF Zero(o, key) THEN Set(<<>>) ELSE CheckpointsOf(Get(o, key))

\* The keys compute writes into Parameters.
ParameterKeys ==
    {"iteration_multiplier", "dt_scale", "memory_multiplier", "sigma_perturbation",
     "rho_perturbation", "beta_perturbation", "quantum_resistance_level"}

\* The float64 a number is read into, in thousandths.
Float64Of(e) == IF e.t = "int" THEN e.v * 1000 ELSE e.v

\* A map[string]interface{} from the value e: every number becomes a
\* float64.
ParametersOf(e) ==
    IF e.t = "object"
       /\ \A k \in ParameterKeys : Has(e, k) => Get(e, k).t \in {"int", "frac"}
    THEN Set([k \in {n \in ParameterKeys : Has(e, n)} |-> Float64Of(Get(e, k))])
    ELSE Unset

ParametersField(o, key) ==
    IF Zero(o, key) THEN Set(Nil) ELSE ParametersOf(Get(o, key))

\* The Algorithm string "QHASH-<n>" as the model holds it.
AlgorithmOf(s) ==
    IF Len(s) > Len(Text("QHASH-"))
       /\ SubSeq(s, 1, Len(Text("QHASH-"))) = Text("QHASH-")
       /\ DigitsEnd(s, Len(Text("QHASH-")) + 1) = Len(s) + 1
    THEN <<"QHASH", DigitsValue(s, Len(Text("QHASH-")) + 1, Len(s))>>
    ELSE <<"other", s>>

\* The Version string as the model holds it.
VersionOf(s) == IF s = Text("2.0") THEN "2.0" ELSE "other"

\* The HardenedSaltedHash of the fields read, and the decoder's error.
StoredOfFields(hash, salt, cps, time, mem, params, algo, ver, size) ==
    IF hash.ok /\ salt.ok /\ cps.ok /\ time.ok /\ mem.ok /\ params.ok /\ algo.ok
       /\ ver.ok /\ size.ok
    THEN [err |-> NoErr,
          value |-> [Hash |-> hash.v, Salt |-> salt.v, Checkpoints |-> cps.v,
                     ComputeTime |-> time.v \div 1000000, MemoryUsed |-> mem.v,
                     Parameters |-> params.v, Algorithm |-> AlgorithmOf(algo.v),
                     Version |-> VersionOf(ver.v), HashSize |-> size.v]]
    ELSE [err |-> "cannot unmarshal into Go struct field", value |-> Nil]

\* The struct of the object o.
StoredOf(o) ==
    StoredOfFields(BytesField(o, "hash"), SaltField(o, "salt"),
                   CheckpointsField(o, "checkpoints"), IntField(o, "compute_time_ns"),
                   IntField(o, "memory_used_kb"), ParametersField(o, "parameters"),
                   StringField(o, "algorithm"), StringField(o, "version"),
                   IntField(o, "hash_size"))

\* The struct of the value the text was scanned to: r is the cursor after
\* the value.  Text that is not one value is a syntax error; a null leaves
\* the struct as it was declared.
Populate(T, r) ==
    IF ~r.ok \/ SkipSpace(T, r.p) # Len(T) + 1
    THEN [err |-> "invalid character", value |-> Nil]
    ELSE IF r.v.t = "null" THEN StoredOf(Value("object", <<>>))
    ELSE IF r.v.t # "object"
    THEN [err |-> "cannot unmarshal into Go value", value |-> Nil]
    ELSE StoredOf(r.v)

\* json.Unmarshal(raw, &stored): the error, and the HardenedSaltedHash read.
Unmarshal(T) == Populate(T, ReadValue(T, Quotes(T), Start))

\* The text the CLI works on, d being base64's reading of the argument:
\* the bytes decoded, or the argument itself when decoding fails.
RawFrom(hjson, d) ==
    IF d.err # NoErr THEN [via |-> "raw", raw |-> hjson]
    ELSE [via |-> "base64", raw |-> d.bytes]

RawOf(hjson) == RawFrom(hjson, DecodeString(hjson))

(* ------------------------------ returns ----------------------------- *)
NoRet == [op |-> "none"]

\* What a call returns: for "hash" the result, for "simple" its Hash, for
\* "verify" the verdict.  err is the returned error's message, cause the
\* error it wraps (%w); did records what the call did on the way.
Returned(callOp, data, err, cause, result, did) ==
    [op |-> callOp, data |-> data, err |-> err, cause |-> cause,
     result |-> IF err = NoErr THEN result ELSE Nil,
     hash |-> IF err = NoErr /\ callOp = "simple" THEN result.Hash ELSE NilBytes,
     verdict |-> FALSE,
     saltCalls |-> did.saltCalls, stagesRun |-> did.stagesRun, runs |-> did.runs,
     slept |-> did.slept, dt |-> did.dt, entered |-> did.entered,
     finalized |-> did.finalized]

\* A failure inside compute, as the public operation reports it.
Failed(callOp, data, err, did) ==
    IF callOp = "verify"
    THEN Returned(callOp, data, "recomputation failed", err, Nil, did)
    ELSE IF callOp = "legacy"
    THEN Returned(callOp, data, "hashing error", err, Nil, did)
    ELSE Returned(callOp, data, err, NoErr, Nil, did)

\* A comparison that looks at the lengths only.
bytesEqualLen(a, b) == Len(a) = Len(b)

\* bytes.Equal
bytesEqual(a, b) == a = b

\* The digest text the caller kept from Hash(data); salt is the hierarchy
\* that call drew, kind how the text was altered since.
Legacy(hash64, data, salt, kind) ==
    [hash64 |-> hash64, data |-> data, salt |-> salt, kind |-> kind]

\* Nothing done: the call returned before compute was entered.
Early(saltCalls) ==
    [saltCalls |-> saltCalls, stagesRun |-> 0, slept |-> 0, dt |-> 0,
     entered |-> FALSE, runs |-> <<>>, finalized |-> NilBytes]

InFlight(f) ==
    [saltCalls |-> f.saltCalls, stagesRun |-> f.stagesRun, slept |-> 0,
     dt |-> 0, entered |-> TRUE, runs |-> f.runs, finalized |-> NilBytes]

NoOrigin == [data |-> <<>>, tamper |-> "none"]

\* A goroutine that is not running: who it is, where its call stands, its
\* frame, what its last call returned.
Parked(who, at, f, r) == [who |-> who, pc |-> at, fr |-> f, ret |-> r]

(* ------------------------------ inputs ------------------------------ *)
HashSizes == {128, Size256, Size384, Size512, 768, Size1024}

\* The data of the calls: the empty input, and inputs of every length up to
\* MaxDataLen made of 'h' and ending in 'h' or in 'q'.
DataSet ==
    {<<>>} \cup { Filled([i \in 1..n |-> IF i = n THEN last ELSE 104]) :
                     n \in 1..MaxDataLen, last \in {104, 113} }

RandDraws == 0..MaxSeed

\* The hour buckets time.Now().Unix() / 3600 the clock can be in.
Hours == 0..MaxHour

(* ------------------------------ actions ----------------------------- *)
Init ==
    /\ ctor = [arg |-> 0, err |-> NoErr, hasher |-> Nil]
    /\ pc = "idle"
    /\ fr = NoFrame
    /\ ret = NoRet
    /\ stored = Nil
    /\ origin = NoOrigin
    /\ other = Parked(2, "idle", NoFrame, NoRet)
    /\ legacy = Nil

\* main: hasher, err := qhash.NewHardenedLorenzHasher(*hashSize)
New(hashSize) ==
    /\ pc = "idle"
    /\ hasher = Nil
    /\ ctor' = [arg |-> hashSize] @@ NewHardenedLorenzHasher(hashSize)
    /\ UNCHANGED <<pc, fr, ret, stored, origin, other, legacy>>

\* HashWithHardening up to the call of compute; callOp "simple" is Hash,
\* which calls it and returns result.Hash.
BeginHash(callOp, data, randOK, rnd, hr) ==
    /\ pc = "idle"
    /\ ret = NoRet
    /\ hasher # Nil
    /\ stored = Nil
    /\ LET gen == generateSalt(hasher, randOK, rnd, hr)
       IN  IF Len(data) = 0
           THEN /\ ret' = Returned(callOp, data, "empty data not allowed", NoErr, Nil, Early(0))
                /\ UNCHANGED <<pc, fr>>
           ELSE IF gen.err # NoErr
           THEN /\ ret' = Returned(callOp, data, "salt generation failed", gen.err, Nil, Early(1))
                /\ UNCHANGED <<pc, fr>>
           ELSE /\ fr' = NewFrame(callOp, data, gen.salt,
                                  deriveAdaptiveParameters(data, gen.salt.MasterSalt), 1)
                /\ pc' = "stage"
                /\ ret' = NoRet
    /\ UNCHANGED <<other, legacy, ctor, stored, origin>>

HashWithHardening(data, randOK, rnd, hr) == BeginHash("hash", data, randOK, rnd, hr)

Hash(data, randOK, rnd, hr) == BeginHash("simple", data, randOK, rnd, hr)

\* VerifyHardenedHash(data, st) up to the call of compute; draws and hours
\* are what the random source and the clock can give while the call runs.
\* The caller holds st as its stored result from here on, come by as kind
\* says.
VerifyCall(data, st, kind, draws, hours) ==
    /\ pc = "idle"
    /\ ret = NoRet
    /\ hasher # Nil
    /\ IF StoredError(st, hasher) # NoErr
       THEN /\ ret' = Returned("verify", data, StoredError(st, hasher), NoErr, Nil,
                                Early(0))
            /\ UNCHANGED <<pc, fr>>
       ELSE LET params == deriveAdaptiveParameters(data, st.Salt.MasterSalt)
            IN  /\ \E rnd \in draws, hr \in hours :
                      fr' = NewFrame("verify", data,
                                     VerifySalt(st, hasher, rnd, hr), params, 0)
                /\ pc' = "stage"
                /\ ret' = NoRet
    /\ stored' = st
    /\ origin' = [origin EXCEPT !.tamper = kind]
    /\ UNCHANGED <<other, legacy, ctor>>

VerifyHardenedHash(data, draws, hours) ==
    VerifyCall(data, stored, origin.tamper, draws, hours)

\* How the CLI came by the struct it verifies.
Envelope(envelope, via) ==
    IF envelope = "b64"
    THEN (IF via = "base64" THEN "b64 read as base64" ELSE "b64 read as raw")
    ELSE (IF via = "base64" THEN "json read as base64" ELSE "json read as raw")

\* verifyHardenedHash after json.Unmarshal returned dec.
VerifyDecoded(data, kind, dec) ==
    IF dec.err # NoErr
    THEN /\ ret' = Returned("verify", data, "JSON decode error", dec.err, Nil, Early(0))
         /\ UNCHANGED <<other, legacy, ctor, pc, fr, stored, origin>>
    ELSE VerifyCall(data, dec.value, kind, {0}, {0})

\* verifyHardenedHash after the argument was read as got.
VerifyRaw(data, envelope, got) ==
    VerifyDecoded(data, Envelope(envelope, got.via), Unmarshal(got.raw))

\* verifyHardenedHash of the CLI, up to the call of compute, for the text
\* -genhardened printed for the stored result: its JSON when envelope is
\* "raw", the base64 of its JSON when it is "b64".
verifyHardenedHash(data, envelope) ==
    /\ pc = "idle"
    /\ ret = NoRet
    /\ hasher # Nil
    /\ stored # Nil
    /\ origin.tamper = "none"
    /\ VerifyRaw(data, envelope,
                 RawOf(IF envelope = "b64" THEN EncodeText(MarshalIndent(stored))
                       ELSE MarshalIndent(stored)))

\* The stage loop of compute after its body returned r for the frame.
StageReturned(r) ==
    IF r.err # NoErr
    THEN /\ ret' = Failed(fr.op, fr.data, r.err,
                          InFlight([fr EXCEPT !.stagesRun = IF r.ran THEN @ + 1 ELSE @,
                                              !.runs = IF r.ran THEN Append(@, r.run)
                                                       ELSE @]))
         /\ fr' = NoFrame
         /\ pc' = "idle"
    ELSE /\ fr' = AfterStage(fr, r)
         /\ pc' = IF fr.idx + 1 < Len(StagesOf(hasher)) THEN "stage" ELSE "finish"
         /\ ret' = NoRet

\* One iteration of the stage loop of compute.
StageStep ==
    /\ pc = "stage"
    /\ StageReturned(StageBody(hasher, fr))
    /\ UNCHANGED <<other, legacy, ctor, stored, origin>>

\* The rest of compute after the stage loop: the finalizer, the minimum
\* compute time, the result; and what the caller does with it.  dt is the
\* reading of time.Since(start), mem that of the memory statistics.
Finish(readings) ==
    /\ pc = "finish"
    /\ LET q == quantumFinalize(fr.buf, fr.salt, hasher.hashSize)
       IN  IF q.err # NoErr
           THEN ret' = Failed(fr.op, fr.data, "quantum finalization failed",
                              [InFlight(fr) EXCEPT !.finalized = fr.buf])
           ELSE \E dt \in readings, mem \in MemReadings :
                LET slept  == FloorSleep(hasher, dt)
                    result == Result(hasher, fr, q.hash, dt + slept, mem)
                    did    == [InFlight(fr) EXCEPT !.slept = slept, !.dt = dt,
                                                   !.finalized = fr.buf]
                IN  IF fr.op = "verify"
                    THEN ret' = [Returned("verify", fr.data, NoErr, NoErr, result, did)
                                    EXCEPT !.verdict = Compare(result, stored)]
                    ELSE IF fr.op = "legacy"
                    THEN ret' = [Returned("legacy", fr.data, NoErr, NoErr, result, did)
                                    EXCEPT !.verdict =
                                        bytesEqual(result.Hash,
                                                   DecodeString(legacy.hash64).bytes)]
                    ELSE ret' = Returned(fr.op, fr.data, NoErr, NoErr, result, did)
    /\ fr' = NoFrame
    /\ pc' = "idle"
    /\ UNCHANGED <<other, legacy, ctor, stored, origin>>

\* The caller keeps the result HashWithHardening returned.
Keep ==
    /\ pc = "idle"
    /\ stored = Nil
    /\ ret.op = "hash"
    /\ ret.err = NoErr
    /\ stored' = ret.result
    /\ origin' = [data |-> ret.data, tamper |-> "none"]
    /\ UNCHANGED <<other, legacy, ctor, pc, fr, ret>>

\* The caller has taken what the last call returned; the next call starts
\* from there.
Take ==
    /\ pc = "idle"
    /\ ret # NoRet
    /\ ret' = NoRet
    /\ UNCHANGED <<other, legacy, ctor, pc, fr, stored, origin>>

\* The caller drops the stored result.
Forget ==
    /\ pc = "idle"
    /\ stored # Nil
    /\ stored' = Nil
    /\ origin' = NoOrigin
    /\ ret' = NoRet
    /\ UNCHANGED <<other, legacy, ctor, pc, fr>>

(* --------------------- what a caller may hand to verify -------------- *)
\* The stored result is caller-supplied (decoded from text): the caller may
\* hand over any alteration of a result.  Each action alters a result that
\* is as HashWithHardening returned it, and origin.tamper names the change.
Pristine ==
    /\ pc = "idle"
    /\ ret = NoRet
    /\ stored # Nil
    /\ origin.tamper = "none"

Altered(kind, value) ==
    /\ stored' = value
    /\ origin' = [origin EXCEPT !.tamper = kind]
    /\ UNCHANGED <<other, legacy, ctor, pc, fr, ret>>

\* The positions an alteration of a sequence of length n touches: the
\* first ones, and the last.
TamperPositions(n) == (1..Min2(MaxTamperPos, n)) \cup {n}

\* One byte of stored.Hash changed (one bit of it flipped).
TamperHashByte(flip) ==
    /\ Pristine
    /\ \E pos \in TamperPositions(Len(stored.Hash)) :
          Altered("hash", [stored EXCEPT !.Hash[pos] = Xor(@, flip)])

\* The digest string of one checkpoint changed in one symbol.
TamperCheckpointHash ==
    /\ Pristine
    /\ \E i \in TamperPositions(Len(stored.Checkpoints)) :
       \E pos \in TamperPositions(Len(stored.Checkpoints[i].Hash)) :
          Altered("cphash", [stored EXCEPT !.Checkpoints[i].Hash[pos] = (@ + 1) % 64])

\* The stage index of one checkpoint changed.
TamperCheckpointStage ==
    /\ Pristine
    /\ \E i \in TamperPositions(Len(stored.Checkpoints)) :
          Altered("cpstage", [stored EXCEPT !.Checkpoints[i].Stage = @ + 1])

\* The iteration count of one checkpoint changed.
TamperCheckpointIteration ==
    /\ Pristine
    /\ \E i \in TamperPositions(Len(stored.Checkpoints)) :
          Altered("cpiter", [stored EXCEPT !.Checkpoints[i].Iteration = @ + 1])

\* The Parameters map of the stored result changed in one entry.
TamperParameters ==
    /\ Pristine
    /\ Altered("params", [stored EXCEPT !.Parameters.dt_scale = @ + 1])

\* The last checkpoint removed.
DropCheckpoint ==
    /\ Pristine
    /\ Altered("cpdrop", [stored EXCEPT !.Checkpoints = SubSeq(@, 1, Len(@) - 1)])

\* A stored result without its salt.
ClearSalt ==
    /\ Pristine
    /\ Altered("nosalt", [stored EXCEPT !.Salt = Nil])

\* A stored result of another hash size, with its salt or without.
SetHashSize(size) ==
    /\ pc = "idle"
    /\ ret = NoRet
    /\ stored # Nil
    /\ origin.tamper \in {"none", "nosalt"}
    /\ size # stored.HashSize
    /\ Altered(IF origin.tamper = "none" THEN "size" ELSE "nosalt+size",
               [stored EXCEPT !.HashSize = size])

\* A stored salt hierarchy with its last stage salt missing.
DropStageSalt ==
    /\ Pristine
    /\ Altered("stagesalt",
               [stored EXCEPT !.Salt.StageSalts = SubSeq(@, 1, Len(@) - 1)])

\* Hashing, verification, and verification of a stored result that lacks
\* its salt or has another size.
Next ==
    \/ \E hashSize \in HashSizes : New(hashSize)
    \/ \E data \in DataSet, rnd \in RandDraws, hr \in Hours :
          HashWithHardening(data, TRUE, rnd, hr)
    \/ \E data \in DataSet : HashWithHardening(data, FALSE, 0, 0)
    \/ \E data \in DataSet, rnd \in RandDraws, hr \in Hours : Hash(data, TRUE, rnd, hr)
    \/ \E data \in DataSet : VerifyHardenedHash(data, RandDraws, Hours)
    \/ StageStep
    \/ Finish(ElapsedReadings)
    \/ Keep
    \/ Take
    \/ Forget
    \/ ClearSalt
    \/ \E size \in {Size256, Size384, Size512, Size1024} : SetHashSize(size)

Spec == Init /\ [][Next]_vars

\* Hashing, alteration of the stored result (its digest, its checkpoints,
\* its parameters, its stage salts), and verification of the altered result against the
\* data it was made from;
\* the clock stands in hour 0 and every call is done after one elapsed
\* reading below the floor.
TamperNext ==
    \/ \E hashSize \in HashSizes : New(hashSize)
    \/ \E data \in DataSet, rnd \in RandDraws : HashWithHardening(data, TRUE, rnd, 0)
    \/ \E data \in DataSet : data = origin.data /\ VerifyHardenedHash(data, {0}, {0})
    \/ \E data \in DataSet, envelope \in {"raw", "b64"} :
          data = origin.data /\ verifyHardenedHash(data, envelope)
    \/ StageStep
    \/ Finish({MinComputeTime - 60})
    \/ Keep
    \/ Take
    \/ Forget
    \/ \E flip \in {1, 128} : TamperHashByte(flip)
    \/ TamperCheckpointHash
    \/ TamperCheckpointStage
    \/ TamperCheckpointIteration
    \/ TamperParameters
    \/ DropCheckpoint
    \/ DropStageSalt

TamperSpec == Init /\ [][TamperNext]_vars

(* ------------------- two goroutines sharing one hasher ---------------- *)
\* ExposeStages: a copy of h.stages[h.hashSize].
ExposeStages ==
    /\ pc = "idle"
    /\ ret = NoRet
    /\ hasher # Nil
    /\ ret' = Returned("stages", <<>>, NoErr, NoErr, Filled(StagesOf(hasher)), Early(0))
    /\ UNCHANGED <<other, legacy, ctor, pc, fr, stored, origin>>

\* The scheduler parks the running goroutine and resumes the other one:
\* pc, fr and ret are the running goroutine's, the hasher and the stored
\* result are the ones both hold.
Yield ==
    /\ hasher # Nil
    /\ other' = Parked(3 - other.who, pc, fr, ret)
    /\ pc' = other.pc
    /\ fr' = other.fr
    /\ ret' = other.ret
    /\ UNCHANGED <<legacy, ctor, stored, origin>>

\* The data and the hash sizes of the calls on the shared hasher.
SharedData == {<<104>>, <<113>>}

SharedSizes == {Size256, Size384}

\* The draws of the random source while the two goroutines run.
SharedDraws == {0, 1}

SupportedSizes == {Size256, Size384, Size512, Size1024}

\* Two goroutines calling HashWithHardening, Hash, VerifyHardenedHash and
\* ExposeStages on one hasher, switched between the stages of compute.
SharedNext ==
    \/ \E hashSize \in SharedSizes : New(hashSize)
    \/ \E rnd \in SharedDraws : HashWithHardening(<<104>>, TRUE, rnd, 0)
    \/ \E rnd \in SharedDraws : Hash(<<113>>, TRUE, rnd, 0)
    \/ \E data \in SharedData : VerifyHardenedHash(data, {0}, {0})
    \/ ExposeStages
    \/ StageStep
    \/ Finish({MinComputeTime - 60})
    \/ Keep
    \/ Take
    \/ Yield

SharedSpec == Init /\ [][SharedNext]_vars

(* ------------------------- legacy verification ------------------------ *)
\* main -gen: the caller keeps the base64 text printed for Hash(data).
KeepLegacy ==
    /\ pc = "idle"
    /\ legacy = Nil
    /\ ret.op = "simple"
    /\ ret.err = NoErr
    /\ legacy' = Legacy(EncodeText(ret.hash), ret.data, ret.result.Salt, "kept")
    /\ UNCHANGED <<other, ctor, pc, fr, ret, stored, origin>>

\* The caller hands over another text: the kept one without its last
\* character, or with its first symbol replaced.
AlterLegacy(kind) ==
    /\ pc = "idle"
    /\ ret = NoRet
    /\ legacy # Nil
    /\ legacy.kind = "kept"
    /\ legacy' = [legacy EXCEPT
                    !.kind = kind,
                    !.hash64 = IF kind = "cut" THEN SubSeq(@, 1, Len(@) - 1)
                               ELSE [@ EXCEPT ![1] = Char((Sym(@) + 1) % 64)]]
    /\ UNCHANGED <<other, ctor, pc, fr, ret, stored, origin>>

\* The caller drops the kept text.
ForgetLegacy ==
    /\ pc = "idle"
    /\ ret = NoRet
    /\ legacy # Nil
    /\ legacy' = Nil
    /\ UNCHANGED <<other, ctor, pc, fr, ret, stored, origin>>

\* verifyLegacyHash(data, hash64, hasher) of the CLI for the text the
\* caller holds, up to the call of compute inside hasher.Hash(data).
verifyLegacyHash(data, randOK, rnd, hr) ==
    /\ pc = "idle"
    /\ ret = NoRet
    /\ hasher # Nil
    /\ legacy # Nil
    /\ Len(data) > 0
    /\ LET expected == DecodeString(legacy.hash64)
           gen      == generateSalt(hasher, randOK, rnd, hr)
       IN  IF expected.err # NoErr
           THEN /\ ret' = Returned("legacy", data, "base64 decode error", expected.err,
                                    Nil, Early(0))
                /\ UNCHANGED <<pc, fr>>
           ELSE IF gen.err # NoErr
           THEN /\ ret' = Returned("legacy", data, "hashing error",
                                    "salt generation failed", Nil, Early(1))
                /\ UNCHANGED <<pc, fr>>
           ELSE /\ fr' = NewFrame("legacy", data, gen.salt,
                                  deriveAdaptiveParameters(data, gen.salt.MasterSalt), 1)
                /\ pc' = "stage"
                /\ ret' = NoRet
    /\ UNCHANGED <<other, legacy, ctor, stored, origin>>

\* The data of the legacy calls.
LegacyData == {<<104>>, <<113>>}

\* Hash, the kept digest text and its alterations, and legacy verification.
LegacyNext ==
    \/ \E hashSize \in HashSizes : New(hashSize)
    \/ \E data \in LegacyData, rnd \in RandDraws : Hash(data, TRUE, rnd, 0)
    \/ \E data \in LegacyData, rnd \in RandDraws : verifyLegacyHash(data, TRUE, rnd, 0)
    \/ \E data \in LegacyData : verifyLegacyHash(data, FALSE, 0, 0)
    \/ StageStep
    \/ Finish({MinComputeTime - 60})
    \/ Take
    \/ KeepLegacy
    \/ \E kind \in {"cut", "changed"} : AlterLegacy(kind)
    \/ ForgetLegacy

LegacySpec == Init /\ [][LegacyNext]_vars

(* ----------------------- the trajectory called alone ------------------ *)
\* A call of TrajectoryToHashBig with arguments a, and what it returned.
CallTrajectory(a) ==
    /\ pc = "idle"
    /\ ret = NoRet
    /\ LET out == TrajectoryToHashBig(a.x0, a.y0, a.z0, a.sigma, a.rho, a.beta, a.dt,
                                      a.iterations, a.discard, a.outSize)
       IN  ret' = [op |-> "trajectory", err |-> out.err, args |-> a, out |-> out]
    /\ UNCHANGED <<other, legacy, ctor, pc, fr, stored, origin>>

\* Arguments in range: the classic parameters (sigma 10, rho 28, beta 2.67,
\* dt 0.01) from the point (1, 1, 1).
ClassicArgs ==
    [x0 |-> Ref(100), y0 |-> Ref(100), z0 |-> Ref(100),
     sigma |-> Ref(1000), rho |-> Ref(2800), beta |-> Ref(267), dt |-> Ref(10),
     iterations |-> MinIterations, discard |-> 0, outSize |-> 32]

\* The values tried for a *big.Float parameter: nil, zero, below zero, the
\* smallest and a usual value, the two ends of its range and just past it.
ParameterProbesOf(hi) == {NilRef, Ref(-1), Ref(0), Ref(1), Ref(hi), Ref(hi + 1)}

IterationCounts == {MinIterations - 1, MinIterations, MaxIterations, MaxIterations + 1}

OutSizes == {0, 1, 32, 47, 48, 64, 127, 128, 129}

Discards == {0, 1, 7, 1064}

\* Hashing, and TrajectoryToHashBig called alone: with one parameter off
\* the classic arguments, with the sizes and counts combined, and with the
\* largest parameters the validation lets through.
TrajectoryNext ==
    \/ \E hashSize \in SupportedSizes : New(hashSize)
    \/ \E data \in SharedData, rnd \in RandDraws : HashWithHardening(data, TRUE, rnd, 0)
    \/ StageStep
    \/ Finish({MinComputeTime - 60})
    \/ Take
    \/ \E name \in {"x0", "y0", "z0"}, p \in {NilRef, Ref(-2000), Ref(1999)} :
          CallTrajectory([ClassicArgs EXCEPT ![name] = p])
    \/ \E name \in {"sigma", "rho", "beta"}, p \in ParameterProbesOf(10000) :
          CallTrajectory([ClassicArgs EXCEPT ![name] = p])
    \/ \E p \in ParameterProbesOf(100) : CallTrajectory([ClassicArgs EXCEPT !.dt = p])
    \/ \E iterations \in IterationCounts, discard \in Discards, outSize \in OutSizes :
          CallTrajectory([ClassicArgs EXCEPT !.iterations = iterations,
                                             !.discard = discard, !.outSize = outSize])
    \/ \E discard \in Discards, x0 \in {Ref(100), Ref(1999)} :
          CallTrajectory([ClassicArgs EXCEPT !.sigma = Ref(10000), !.rho = Ref(10000),
                                             !.dt = Ref(100), !.x0 = x0,
                                             !.discard = discard])

TrajectorySpec == Init /\ [][TrajectoryNext]_vars

(* ------------------- the salt hierarchy and its stage salts ----------- *)
\* A stored salt hierarchy with only its first k stage salts.
CutStageSalts(k) ==
    /\ Pristine
    /\ k < Len(stored.Salt.StageSalts)
    /\ Altered("fewer stage salts", [stored EXCEPT !.Salt.StageSalts = SubSeq(@, 1, k)])

\* A stored salt hierarchy with one more stage salt than there are stages.
AddStageSalt(extra) ==
    /\ Pristine
    /\ Altered("extra stage salt", [stored EXCEPT !.Salt.StageSalts = Append(@, extra)])

\* What a call of GenerateSaltHierarchy with arguments a returned.
Generated(a, out) == [op |-> "salts", err |-> out.err, args |-> a, salt |-> out.salt]

\* GenerateSaltHierarchy called by a user of the package that keeps no
\* result; the random source works or fails, gives draw rnd, and the clock
\* stands in hour hr.
CallGenerateSaltHierarchy(numStages, hashSize, randOK, rnd, hr) ==
    /\ pc = "idle"
    /\ ret = NoRet
    /\ stored = Nil
    /\ ret' = Generated([numStages |-> numStages, hashSize |-> hashSize,
                         randOK |-> randOK, rnd |-> rnd, hr |-> hr],
                        GenerateSaltHierarchy(numStages, hashSize, randOK, rnd, hr))
    /\ UNCHANGED <<other, legacy, ctor, pc, fr, stored, origin>>

\* Stage counts around the two ends of [1, 10] and those of the presets.
StageCounts == {-1, 0, 1, 2, 3, 4, 8, 10, 11}

\* Hash sizes GenerateSaltHierarchy is called with: the supported ones, and
\* sizes below and above them.
SaltHashSizes == {-256, 0, 128, Size256, Size384, Size512, Size1024, 2048}

\* Hashing, verification against a stored result with fewer or more stage
\* salts than stages, and GenerateSaltHierarchy called alone.
SaltNext ==
    \/ \E hashSize \in SupportedSizes : New(hashSize)
    \/ \E rnd \in RandDraws : HashWithHardening(<<104>>, TRUE, rnd, 0)
    \/ Hash(<<113>>, TRUE, 0, 0)
    \/ \E data \in {<<104>>, <<113>>} : VerifyHardenedHash(data, {0}, {0})
    \/ StageStep
    \/ Finish({MinComputeTime - 60})
    \/ Keep
    \/ Take
    \/ \E k \in 0..7 : CutStageSalts(k)
    \/ \E extra \in {<<>>, <<7, 7>>} : AddStageSalt(extra)
    \/ \E numStages \in StageCounts, hashSize \in SaltHashSizes, randOK \in BOOLEAN,
          rnd \in RandDraws, hr \in Hours :
          CallGenerateSaltHierarchy(numStages, hashSize, randOK, rnd, hr)

SaltSpec == Init /\ [][SaltNext]_vars

(* ============================ properties ============================ *)

\* A call that went through compute and returned without error.
Completed == ret.op \in {"hash", "simple", "verify"} /\ ret.err = NoErr

\* The stored result is as HashWithHardening returned it.
StoredPristine == stored # Nil /\ origin.tamper = "none"

\* C1: a successful HashWithHardening on a supported width w and non-empty
\* data returns a final hash of exactly w/8 bytes, and no digest the
\* finalizer returns (to hashing, to Hash or to verification) has another
\* length.
C1_FinalHashLength ==
    /\ (ret.op = "hash" /\ ret.err = NoErr) =>
          /\ hasher.hashSize \in SupportedSizes
          /\ Len(ret.data) > 0
          /\ Len(ret.result.Hash) = hasher.hashSize \div 8
          /\ Len(ret.result.Hash) \in {32, 48, 64, 128}
    /\ Completed => Len(ret.result.Hash) = hasher.hashSize \div 8
    /\ (ret.op = "simple" /\ ret.err = NoErr) =>
          Len(ret.hash) = hasher.hashSize \div 8

\* C1 witness: a 1024-bit hasher returned a 128-byte final hash.
C1_Witness ==
    /\ ret.op = "hash"
    /\ ret.err = NoErr
    /\ hasher.hashSize = Size1024
    /\ Len(ret.result.Hash) = 128

\* C2: verifying the data a stored result was made from, on the hasher that
\* made it, returns (true, nil), and the recomputation gave the stored
\* final digest and the stored checkpoint list.
C2_HashThenVerify ==
    (ret.op = "verify" /\ StoredPristine /\ ret.data = origin.data) =>
        /\ ret.err = NoErr
        /\ ret.verdict = TRUE
        /\ ret.result.Hash = stored.Hash
        /\ ret.result.Checkpoints = stored.Checkpoints

\* C2 witness: a verification of the original data returned true although
\* it took another time than the hashing did.
C2_Witness ==
    /\ ret.op = "verify"
    /\ StoredPristine
    /\ ret.data = origin.data
    /\ ret.verdict = TRUE
    /\ ret.result.ComputeTime # stored.ComputeTime

\* C3: verification returns true only if the stored checkpoints agree
\* with the recomputed ones in number and, position by position, in stage
\* index, iteration count and digest string (and the final digests agree).
C3_CheckpointFieldsCompared ==
    (ret.op = "verify" /\ ret.err = NoErr /\ ret.verdict = TRUE) =>
        /\ ret.result.Hash = stored.Hash
        /\ Len(ret.result.Checkpoints) = Len(stored.Checkpoints)
        /\ \A i \in 1..Len(stored.Checkpoints) :
              /\ stored.Checkpoints[i].Stage = ret.result.Checkpoints[i].Stage
              /\ stored.Checkpoints[i].Iteration = ret.result.Checkpoints[i].Iteration
              /\ stored.Checkpoints[i].Hash = ret.result.Checkpoints[i].Hash

\* C4: with one byte of the stored final hash changed, or one checkpoint's
\* digest string changed, verification of the original data returns
\* (false, nil).
C4_TamperDetected ==
    (ret.op = "verify" /\ stored # Nil /\ origin.tamper \in {"hash", "cphash"}
        /\ ret.data = origin.data) =>
        /\ ret.err = NoErr
        /\ ret.verdict = FALSE

\* C4 witness: a verification against a result whose last checkpoint's
\* digest string was changed ran to the comparison and returned false.
C4_Witness ==
    /\ ret.op = "verify"
    /\ stored # Nil
    /\ origin.tamper = "cphash"
    /\ ret.data = origin.data
    /\ ret.entered
    /\ ret.verdict = FALSE
    /\ ret.err = NoErr
    /\ ret.result.Hash = stored.Hash

\* C5: verification of a nil stored result or of one without salt returns
\* (false, "invalid stored hash"), of one with another hash size (false,
\* "hash size mismatch"), the nil check first; on these paths compute is
\* not entered: no stage runs and nothing is slept.
C5_StoredChecks ==
    ret.op = "verify" =>
        /\ (stored = Nil \/ stored.Salt = Nil) =>
              ret.err = "invalid stored hash"
        /\ (stored # Nil /\ stored.Salt # Nil /\ stored.HashSize # hasher.hashSize) =>
              ret.err = "hash size mismatch"
        /\ ret.err \in {"invalid stored hash", "hash size mismatch"} =>
              /\ ret.verdict = FALSE
              /\ ~ret.entered
              /\ ret.stagesRun = 0
              /\ ret.slept = 0
              /\ ret.saltCalls = 0

\* C5 witness: a stored result with neither salt nor the right size was
\* refused for its missing salt.
C5_Witness ==
    /\ ret.op = "verify"
    /\ stored # Nil
    /\ stored.Salt = Nil
    /\ stored.HashSize # hasher.hashSize
    /\ ret.err = "invalid stored hash"
    /\ ~ret.entered

\* C6: verification of non-empty data other than the data an unaltered
\* stored result was made from returns (false, nil): a content mismatch is
\* never an error.
C6_ContentMismatchNoError ==
    (ret.op = "verify" /\ StoredPristine /\ Len(ret.data) > 0
        /\ ret.data # origin.data) =>
        /\ ret.err = NoErr
        /\ ret.verdict = FALSE

\* C7: a call that went through compute returned no earlier than
\* minComputeTime after its start; it slept minComputeTime - e when the
\* elapsed time e was below the minimum and did not sleep otherwise, and
\* the recorded ComputeTime is at least the minimum.
C7_TimingFloor ==
    Completed =>
        /\ ret.dt + ret.slept >= MinComputeTime
        /\ ret.dt < MinComputeTime => ret.slept = MinComputeTime - ret.dt
        /\ ret.dt >= MinComputeTime => ret.slept = 0
        /\ ret.result.ComputeTime >= MinComputeTime

\* C7 witness: a hashing that was done after 40 ms slept 60 ms.
C7_Witness ==
    /\ ret.op = "hash"
    /\ ret.err = NoErr
    /\ ret.dt = MinComputeTime - 60
    /\ ret.slept = 60
    /\ ret.result.ComputeTime = MinComputeTime

\* The iteration counts a preset is tried with.
IterationProbes ==
    {0, MinIterations - 1, MinIterations, MaxIterations, MaxIterations + 1}

\* The stage list of a size with the iteration count of stage k replaced.
WithIterations(size, k, it) == [stageConfigs(size) EXCEPT ![k].Iterations = it]

StageInRange(st) ==
    /\ st.Iterations >= 1000 /\ st.Iterations <= 100000
    /\ st.Sigma > 0 /\ st.Sigma <= 100 * 100
    /\ st.Rho > 0 /\ st.Rho <= 100 * 100
    /\ st.Beta > 0 /\ st.Beta <= 100 * 100
    /\ st.Dt > 0 /\ st.Dt <= 100

\* The constructor has returned and nothing was called since.
JustConstructed == ctor.arg # 0 /\ pc = "idle" /\ ret = NoRet /\ stored = Nil

\* C8: the constructor returns an error and no hasher for every width
\* other than 256, 384, 512, 1024; its validation rejects a stage list
\* with an iteration count outside [1000, 100000]; every hasher it returns
\* has 2, 3, 4 or 8 stages, all with iterations in [1000, 100000], sigma,
\* rho, beta in (0, 100] and dt in (0, 0.1].
C8_ConstructorValidation ==
    /\ (ctor.arg # 0 /\ ctor.arg \notin SupportedSizes) =>
          ctor.err # NoErr /\ ctor.hasher = Nil
    /\ ctor.err # NoErr => ctor.hasher = Nil
    /\ ctor.hasher # Nil =>
          /\ ctor.err = NoErr
          /\ ctor.arg \in SupportedSizes
          /\ ctor.hasher.hashSize = ctor.arg
          /\ Len(ctor.hasher.stages) =
                (CASE ctor.arg = Size256 -> 2 [] ctor.arg = Size384 -> 3
                   [] ctor.arg = Size512 -> 4 [] ctor.arg = Size1024 -> 8)
          /\ \A i \in 1..Len(ctor.hasher.stages) : StageInRange(ctor.hasher.stages[i])
    /\ JustConstructed =>
          \A size \in SupportedSizes, it \in IterationProbes :
             \A k \in 1..Len(stageConfigs(size)) :
                (ValidateStages(WithIterations(size, k, it)) = NoErr)
                   <=> (it >= 1000 /\ it <= 100000)

\* C8 witness: the constructor was called for 768 bits and returned an
\* error and no hasher.
C8_Witness ==
    /\ ctor.arg = 768
    /\ ctor.err = "unsupported hash size"
    /\ ctor.hasher = Nil

\* C9: HashWithHardening, Hash and VerifyHardenedHash called with empty
\* data return an error and no result or verdict, before any salt is
\* generated and before any stage runs.
C9_EmptyDataRejected ==
    (ret.op \in {"hash", "simple", "verify"} /\ Len(ret.data) = 0) =>
        /\ ret.err # NoErr
        /\ ~ret.entered
        /\ ret.saltCalls = 0
        /\ ret.stagesRun = 0

\* C10: verification runs compute with the stored salt hierarchy, whatever
\* the clock and the random source give, never calls the salt generator,
\* and the recomputed result carries the stored hierarchy unchanged.
C10_StoredSaltUsed ==
    /\ fr.op = "verify" =>
          /\ fr.salt = stored.Salt
          /\ fr.saltCalls = 0
    /\ ret.op = "verify" => ret.saltCalls = 0
    /\ (ret.op = "verify" /\ ret.err = NoErr) =>
          /\ ret.result.Salt = stored.Salt
          /\ ret.result.Salt.MasterSalt = stored.Salt.MasterSalt
          /\ ret.result.Salt.StageSalts = stored.Salt.StageSalts
          /\ ret.result.Salt.TimestampSalt = stored.Salt.TimestampSalt
          /\ ret.result.Salt.MetaSalt = stored.Salt.MetaSalt

\* C10 witness: a verification returned true with a stored hierarchy that
\* a salt generation in hour 0 with draw 0 does not give.
C10_Witness ==
    /\ ret.op = "verify"
    /\ ret.err = NoErr
    /\ ret.verdict = TRUE
    /\ ret.saltCalls = 0
    /\ stored.Salt # generateSalt(hasher, TRUE, 0, 0).salt

\* Adaptive-parameter maps at the two ends of the derived ranges.
ParameterProbes ==
    { [iteration_multiplier |-> 800, dt_scale |-> 900, memory_multiplier |-> 1000,
       sigma_perturbation |-> -500, rho_perturbation |-> -1000,
       beta_perturbation |-> -250, quantum_resistance_level |-> 1],
      [iteration_multiplier |-> 1200, dt_scale |-> 1100, memory_multiplier |-> 2000,
       sigma_perturbation |-> 500, rho_perturbation |-> 1000,
       beta_perturbation |-> 250, quantum_resistance_level |-> 4] }

\* C11: for the data and the salt hierarchy of a returned result, compute
\* gives the same final digest and the same checkpoints for every
\* adaptive-parameter map and copies the map into Parameters; and a stored
\* result whose Parameters were changed still verifies as true.
C11_ParametersMetadataOnly ==
    /\ (ret.op = "hash" /\ ret.err = NoErr) =>
          \A p \in ParameterProbes :
             LET c == compute(hasher, ret.data, ret.result.Salt, p, ret.dt,
                              ret.result.MemoryUsed)
             IN  /\ c.err = NoErr
                 /\ c.result.Hash = ret.result.Hash
                 /\ c.result.Checkpoints = ret.result.Checkpoints
                 /\ c.result.Parameters = p
                 /\ c.result = [ret.result EXCEPT !.Parameters = p]
    /\ (ret.op = "verify" /\ stored # Nil /\ origin.tamper = "params"
           /\ ret.data = origin.data) =>
          /\ ret.err = NoErr
          /\ ret.verdict = TRUE

\* C11 witness: a verification returned true for a stored result whose
\* Parameters differ from the ones the recomputation derived.
C11_Witness ==
    /\ ret.op = "verify"
    /\ stored # Nil
    /\ origin.tamper = "params"
    /\ ret.err = NoErr
    /\ ret.verdict = TRUE
    /\ ret.result.Parameters # stored.Parameters

\* The stored result was decoded from the text printed for a result.
Decoded ==
    /\ stored # Nil
    /\ origin.tamper \in {"json read as raw", "json read as base64",
                          "b64 read as base64", "b64 read as raw"}

\* The caller has just kept the result a hashing returned.
JustKept == ret.op = "hash" /\ ret.err = NoErr /\ stored = ret.result

\* C12: verification of the original data against a result decoded from
\* its printed JSON, raw or in the base64 envelope, returns (true, nil);
\* the CLI uses the base64 decoding of its argument when that succeeds (the
\* envelope) and the argument itself only when it fails (raw JSON, which
\* never is base64); decoding the JSON of a result gives the result back,
\* the int of Parameters as a float64.
C12_SerializationRoundTrip ==
    /\ (ret.op = "verify" /\ Decoded /\ ret.data = origin.data) =>
          /\ ret.err = NoErr
          /\ ret.verdict = TRUE
    /\ Decoded => origin.tamper \in {"json read as raw", "b64 read as base64"}
    /\ ret.op = "verify" => ret.err # "JSON decode error"
    /\ JustKept =>
          LET j == MarshalIndent(stored)
          IN  /\ DecodeString(j).err # NoErr
              /\ RawOf(j).raw = j
              /\ RawOf(EncodeText(j)).raw = j
              /\ Unmarshal(j).err = NoErr
              /\ Unmarshal(j).value =
                    [stored EXCEPT !.Parameters.quantum_resistance_level = @ * 1000]

\* C12 witness: a result that went through JSON and the base64 envelope
\* verified as true.
C12_Witness ==
    /\ ret.op = "verify"
    /\ stored # Nil
    /\ origin.tamper = "b64 read as base64"
    /\ ret.data = origin.data
    /\ ret.err = NoErr
    /\ ret.verdict = TRUE
    /\ stored.Hash = ret.result.Hash

\* The two goroutines: the running one and the parked one.
Goroutines == {Parked(3 - other.who, pc, fr, ret), other}

Goroutine(who) == IF other.who = who THEN other ELSE Parked(who, pc, fr, ret)

\* The stage loop of compute from frame f until stage k.
RECURSIVE RunTo(_, _, _)
RunTo(h, f, k) ==
    IF f.idx >= k THEN f ELSE RunTo(h, AfterStage(f, StageBody(h, f)), k)

\* Goroutine g is where it would be had it run alone with the same salt:
\* in flight its frame is the one the stage loop reaches from the start of
\* compute, returned its result is the one compute gives.
AsAlone(g) ==
    /\ g.pc \in {"stage", "finish"} =>
          g.fr = RunTo(hasher, NewFrame(g.fr.op, g.fr.data, g.fr.salt, g.fr.params,
                                        g.fr.saltCalls), g.fr.idx)
    /\ g.ret.op \in {"hash", "simple", "verify"} /\ g.ret.err = NoErr =>
          LET alone == compute(hasher, g.ret.data, g.ret.result.Salt,
                               g.ret.result.Parameters, g.ret.dt,
                               g.ret.result.MemoryUsed)
          IN  /\ alone.err = NoErr
              /\ alone.result = g.ret.result
              /\ g.ret.op = "simple" => g.ret.hash = alone.result.Hash
              /\ g.ret.op = "verify" => g.ret.verdict = Compare(alone.result, stored)
    /\ g.ret.op = "stages" => g.ret.result = StagesOf(hasher)

\* A step leaves the data and the salt of the call goroutine who is in.
CallArgumentsKept(who) ==
    LET before == Goroutine(who)
        after  == Goroutine(who)'
    IN  /\ before.fr # NoFrame /\ after.fr # NoFrame =>
              /\ after.fr.data = before.fr.data
              /\ after.fr.salt = before.fr.salt
        /\ before.fr # NoFrame /\ after.fr = NoFrame =>
              after.ret.data = before.fr.data

\* C13: no call on a shared hasher changes the hasher (stage list, width,
\* constants), the caller's data or the stored result handed to verify, and
\* each of two goroutines calling HashWithHardening, Hash,
\* VerifyHardenedHash and ExposeStages on it, however their stages
\* interleave, is where it would be had it run alone with the same salt.
C13_SharedHasherUnchanged ==
    /\ [](\A g \in Goroutines : AsAlone(g))
    /\ [][/\ hasher # Nil => hasher' = hasher
          /\ stored # Nil => stored' = stored
          /\ \A who \in {1, 2} : CallArgumentsKept(who)]_vars

\* C13 witness: one goroutine has returned from a successful verification
\* while the other is between two stages of hashing other data.
C13_Witness ==
    /\ ret.op = "verify" /\ ret.err = NoErr /\ ret.verdict
    /\ other.pc = "stage" /\ other.fr.idx = 1 /\ other.fr.op = "simple"
    /\ other.fr.data # ret.data

\* Length len lies on the line from lo at width 256 to hi at width 1024.
OnLine(len, width, lo, hi) ==
    (len - lo) * (Size1024 - Size256) = (hi - lo) * (width - Size256)

\* C14: the salt hierarchy of every result has master, stage, timestamp
\* and meta salts whose lengths lie on the lines from 32/16/12/24 bytes at
\* width 256 to 80/48/28/56 bytes at width 1024, and all its stage salts
\* have one length.
C14_SaltSizesLinear ==
    ret.op = "hash" /\ ret.err = NoErr =>
        LET salt  == ret.result.Salt
            width == hasher.hashSize
        IN  /\ OnLine(Len(salt.MasterSalt), width, 32, 80)
            /\ \A i \in 1..Len(salt.StageSalts) :
                   /\ OnLine(Len(salt.StageSalts[i]), width, 16, 48)
                   /\ Len(salt.StageSalts[i]) = Len(salt.StageSalts[1])
            /\ OnLine(Len(salt.TimestampSalt), width, 12, 28)
            /\ OnLine(Len(salt.MetaSalt), width, 24, 56)

\* C15: legacy verification makes one fresh Hash(data) call, which draws a
\* salt hierarchy and returns the final hash of its hardened result, and
\* reports whether that hash equals the decoded expected digest byte for
\* byte; for the digest text of an earlier Hash of the same data it reports
\* a match exactly when the fresh call drew the salt hierarchy of the
\* earlier one, and a mismatch is reported without an error.
C15_LegacyVerification ==
    /\ ret.op = "simple" /\ ret.err = NoErr =>
          /\ ret.hash = ret.result.Hash
          /\ ret.saltCalls = 1
    /\ ret.op = "legacy" =>
          LET expected == DecodeString(legacy.hash64)
          IN  /\ ret.err = "base64 decode error" <=> expected.err # NoErr
              /\ ret.err = "base64 decode error" => ~ret.entered /\ ret.saltCalls = 0
              /\ ret.err \in {NoErr, "base64 decode error", "hashing error"}
              /\ ret.err # NoErr => ~ret.verdict
              /\ ret.err = NoErr =>
                    /\ ret.saltCalls = 1
                    /\ ret.result =
                          compute(hasher, ret.data, ret.result.Salt,
                                  deriveAdaptiveParameters(ret.data,
                                                           ret.result.Salt.MasterSalt),
                                  ret.dt, ret.result.MemoryUsed).result
                    /\ ret.verdict <=> ret.result.Hash = expected.bytes
                    /\ legacy.kind = "kept" =>
                          /\ expected.bytes # NilBytes
                          /\ ret.data = legacy.data =>
                                (ret.verdict <=> ret.result.Salt = legacy.salt)
                          /\ ret.verdict => ret.result.Salt = legacy.salt

\* C15 witness: legacy verification of the digest of an earlier Hash of the
\* same data has reported a mismatch, without error, because the fresh call
\* drew another salt hierarchy.
C15_Witness ==
    /\ ret.op = "legacy" /\ ret.err = NoErr /\ ~ret.verdict
    /\ legacy.kind = "kept" /\ ret.data = legacy.data
    /\ ret.result.Salt # legacy.salt

\* The stage count of each hash size.
StageCount(width) ==
    CASE width = Size256 -> 2 [] width = Size384 -> 3
      [] width = Size512 -> 4 [] width = Size1024 -> 8

\* cps holds one checkpoint for each of the first Len(cps) stages of h, in
\* stage order.
CheckpointsOfStages(cps, h) ==
    /\ Len(cps) <= Len(StagesOf(h))
    /\ \A i \in 1..Len(cps) :
          /\ cps[i].Stage = i - 1
          /\ cps[i].Iteration = StagesOf(h)[i].Iterations
          /\ cps[i].Size = h.hashSize

\* C16: every successful compute returns one checkpoint per stage in stage
\* order (2, 3, 4, 8 of them), checkpoint i carrying stage index i, stage
\* i's iteration count and the hasher width; while compute runs it holds
\* one checkpoint per trajectory that succeeded, and a stage that succeeds
\* appends its checkpoint before the next one starts; a failed compute
\* returns no checkpoint list.
C16_CheckpointPerStage ==
    /\ [](/\ pc \in {"stage", "finish"} =>
              /\ Len(fr.checkpoints) = fr.idx
              /\ fr.idx = fr.stagesRun
              /\ pc = "finish" <=> fr.idx = Len(StagesOf(hasher))
              /\ CheckpointsOfStages(fr.checkpoints, hasher)
          /\ Completed =>
              /\ Len(ret.result.Checkpoints) = Len(StagesOf(hasher))
              /\ Len(ret.result.Checkpoints) = StageCount(hasher.hashSize)
              /\ ret.stagesRun = Len(ret.result.Checkpoints)
              /\ CheckpointsOfStages(ret.result.Checkpoints, hasher)
          /\ ret # NoRet /\ ret.err # NoErr => ret.result = Nil)
    /\ [][pc = "stage" /\ fr' # fr =>
            IF fr' = NoFrame
            THEN ret'.err # NoErr /\ ret'.result = Nil
            ELSE /\ Len(fr'.checkpoints) = Len(fr.checkpoints) + 1
                 /\ SubSeq(fr'.checkpoints, 1, Len(fr.checkpoints)) = fr.checkpoints
                 /\ fr'.checkpoints[fr'.idx].Stage = fr.idx
                 /\ fr'.stagesRun = fr.stagesRun + 1]_vars

\* C16 witness: a hash of width 1024 has returned its eight checkpoints.
C16_Witness ==
    /\ ret.op = "hash" /\ ret.err = NoErr
    /\ hasher.hashSize = Size1024
    /\ Len(ret.result.Checkpoints) = 8
    /\ ret.result.Checkpoints[8].Stage = 7

\* The runs are those of stages 0, 1, ... in order, each seeded from the
\* block of the run before it (the first from data) followed by its stage
\* salt, together with the master salt, and each but the last has produced
\* its block.
Chained(runs, data, salt, h) ==
    \A i \in 1..Len(runs) :
        /\ runs[i].stage = i - 1
        /\ runs[i].master = salt.MasterSalt
        /\ runs[i].seedIn = Cat(IF i = 1 THEN data ELSE runs[i - 1].block,
                                salt.StageSalts[i])
        /\ i < Len(runs) => runs[i].err = NoErr
        /\ runs[i].err = NoErr => Len(runs[i].block) = h.hashSize \div 8
        /\ runs[i].err # NoErr => runs[i].block = NilBytes

\* C17: stage 0 is seeded from data || stageSalts[0] and stage i > 0 from
\* the block of stage i-1 || stageSalts[i], always with the master salt;
\* stage i starts only when stage i-1 has produced its block; the
\* finalizer receives the block of the last stage, and each checkpoint is
\* the digest of its stage's block.
C17_StagesChained ==
    /\ pc \in {"stage", "finish"} =>
          /\ Len(fr.runs) = fr.idx
          /\ Chained(fr.runs, fr.data, fr.salt, hasher)
          /\ fr.buf = IF fr.idx = 0 THEN fr.data ELSE fr.runs[fr.idx].block
          /\ \A i \in 1..Len(fr.runs) : fr.runs[i].err = NoErr
    /\ Completed =>
          LET runs == ret.runs
              n    == Len(StagesOf(hasher))
          IN  /\ Len(runs) = n
              /\ Chained(runs, ret.data, ret.result.Salt, hasher)
              /\ \A i \in 1..n :
                    /\ runs[i].err = NoErr
                    /\ ret.result.Checkpoints[i].Hash =
                          EncodeToString(SizedSum(hasher.hashSize, runs[i].block))
              /\ ret.finalized = runs[n].block
              /\ ret.result.Hash =
                    quantumFinalize(runs[n].block, ret.result.Salt, hasher.hashSize).hash

\* C17 witness: a hash of width 384 has run its three stages, the third
\* seeded from the block of the second, and finalized the third block.
C17_Witness ==
    /\ ret.op = "hash" /\ ret.err = NoErr
    /\ Len(ret.runs) = 3
    /\ SubSeq(ret.runs[3].seedIn, 1, 48) = ret.runs[2].block
    /\ ret.runs[2].block # ret.runs[1].block
    /\ ret.finalized = ret.runs[3].block

\* A direct call of TrajectoryToHashBig has returned its bytes.
TrajectoryDone == ret.op = "trajectory" /\ ret.err = NoErr

\* How many of the thresholds 48, 64 and 128 the output size meets.
ThresholdsMet(outSize) ==
    (IF outSize >= 48 THEN 1 ELSE 0) + (IF outSize >= 64 THEN 1 ELSE 0)
    + (IF outSize >= 128 THEN 1 ELSE 0)

\* The steps and bytes of a trajectory that returned t for a warm-up of
\* discard steps, iterations capturing steps and outSize bytes: the two
\* loops ran as many iterations as they were given (the model runs at most
\* MaxWarmup and MaxCapture of them), the warm-up appended nothing, each
\* capturing step 3 bytes and 3 more for each threshold met, and the
\* output has outSize bytes.
StepsAndBytes(t, bytes, iterations, discard, outSize) ==
    /\ t.warmSteps = Min2(discard, MaxWarmup)
    /\ discard <= MaxWarmup => t.warmSteps = discard
    /\ t.steps = t.warmSteps + Min2(iterations, MaxCapture)
    /\ t.streamLen = (t.steps - t.warmSteps) * 3 * (1 + ThresholdsMet(outSize))
    /\ Len(bytes) = outSize

\* The loops run to their full counts for the largest output: a warm-up
\* of 1000 + 1024/4 steps and MinIterations capturing steps from (1, 1, 1)
\* with the classic parameters.
FullLengthRun ==
    LET w == WarmUp(LoopStart(<<100, 100, 100>>), 1000 + Size1024 \div 4,
                    1000, 2800, 267, 10)
        c == Capture(LoopStart(w.s), MinIterations, 1000, 2800, 267, 10, 128)
    IN  /\ w.err = NoErr /\ w.steps = 1000 + Size1024 \div 4 /\ w.stream = <<>>
        /\ c.err = NoErr /\ c.steps = MinIterations
        /\ Len(c.stream) = MinIterations * 3 * 4
        /\ Len(XorFold(c.stream, 128)) = 128

ValidationErrors ==
    {"nil parameters", "iterations out of safe range", "invalid output size",
     "sigma parameter out of range", "rho parameter out of range",
     "beta parameter out of range", "dt parameter out of range"}

\* The *big.Float p is nil or outside (0, hi].
OutOfRange(p, hi) == p.nil \/ p.v <= 0 \/ p.v > hi

\* Arguments the claim calls bad: a nil parameter, iterations outside
\* [1000, 100000], an output size outside [1, 128], sigma, rho or beta
\* outside (0, 100], dt outside (0, 0.1].
BadArguments(a) ==
    \/ a.x0.nil \/ a.y0.nil \/ a.z0.nil
    \/ a.iterations < 1000 \/ a.iterations > 100000
    \/ a.outSize < 1 \/ a.outSize > 128
    \/ OutOfRange(a.sigma, 100 * 100)
    \/ OutOfRange(a.rho, 100 * 100)
    \/ OutOfRange(a.beta, 100 * 100)
    \/ OutOfRange(a.dt, 100)

\* C19: TrajectoryToHashBig called with a nil parameter, iterations
\* outside [1000, 100000], an output size outside [1, 128], sigma, rho or
\* beta outside (0, 100] or dt outside (0, 0.1] returns a validation error
\* and no bytes without having made a Lorenz step; called with all
\* arguments in range it returns no validation error.
C19_ArgumentsValidated ==
    ret.op = "trajectory" =>
        /\ BadArguments(ret.args) <=> ret.out.err \in ValidationErrors
        /\ BadArguments(ret.args) =>
              /\ ret.out.bytes = NilBytes
              /\ ret.out.steps = 0
              /\ ret.out.streamLen = 0
        /\ ret.args.x0.nil \/ ret.args.sigma.nil \/ ret.args.dt.nil =>
              ret.out.err = "nil parameters"
        /\ ret.out.steps > 0 => ~BadArguments(ret.args)

\* C19 witness: a call whose only bad argument is a dt just above 0.1 was
\* rejected before any step.
C19_Witness ==
    /\ ret.op = "trajectory"
    /\ ret.args = [ClassicArgs EXCEPT !.dt = Ref(101)]
    /\ ret.out.err = "dt parameter out of range"
    /\ ret.out.bytes = NilBytes
    /\ ret.out.steps = 0

\* One more Lorenz step of the orbit r = [s, k, first], unless a step has
\* taken a coordinate beyond the limit already: k counts the steps, and
\* first is the number of the step that did, 0 while none has.
OrbitStep(r, t) ==
    IF t.err # NoErr THEN [r EXCEPT !.s = t.s, !.k = @ + 1, !.first = r.k + 1]
    ELSE [r EXCEPT !.s = t.s, !.k = @ + 1]

RECURSIVE Orbit(_, _, _, _, _, _)
Orbit(r, n, sigma, rho, beta, dt) ==
    IF n = 0 \/ r.first # 0 THEN r
    ELSE IF n = 1 THEN OrbitStep(r, lorenzStep(r.s, sigma, rho, beta, dt))
    ELSE Orbit(Orbit(r, n \div 2, sigma, rho, beta, dt), n - n \div 2,
               sigma, rho, beta, dt)

\* The number of the first of n Lorenz steps from s that takes a
\* coordinate beyond the limit; 0 if none does.
FirstOverflow(s, n, sigma, rho, beta, dt) ==
    Orbit([s |-> s, k |-> 0, first |-> 0], n, sigma, rho, beta, dt).first

\* Some coordinate of s is beyond the limit.
Unstable(s) == \E i \in 1..3 : Abs(s[i]) > CoordLimit * 100

\* A trajectory that returned t, having been started at s for a warm-up of
\* discard and iterations capturing steps, stopped at the first step that
\* took a coordinate beyond the limit, with an error that wraps the step's
\* and no bytes, and otherwise ran to its end.
AbortsAtFirstOverflow(t, bytes, s, sigma, rho, beta, dt, iterations, discard) ==
    LET n     == Min2(discard, MaxWarmup) + Min2(iterations, MaxCapture)
        first == FirstOverflow(s, n, sigma, rho, beta, dt)
    IN  /\ first = 0 <=> t.err = NoErr
        /\ t.peak <= CoordLimit * 100
        /\ t.err = NoErr => t.steps = n /\ ~Unstable(t.last)
        /\ first > 0 =>
              /\ t.steps = first
              /\ Unstable(t.last)
              /\ bytes = NilBytes
              /\ t.cause \in {"x coordinate overflow", "y coordinate overflow",
                              "z coordinate overflow"}
              /\ t.err = IF first <= Min2(discard, MaxWarmup)
                         THEN "warm-up step failed" ELSE "iteration failed"
              /\ first <= Min2(discard, MaxWarmup) =>
                    t.warmSteps = first /\ t.streamLen = 0
              /\ first > Min2(discard, MaxWarmup) =>
                    t.warmSteps = Min2(discard, MaxWarmup)

\* The stage runs of a compute are those of stages 0, 1, ... once each,
\* every one seeded as compute seeds it and stopped at its first overflow,
\* and none follows a failed one.
RunsAbortAtOverflow(runs, h) ==
    \A i \in 1..Len(runs) :
        LET seed == seedBig(runs[i].seedIn, runs[i].master)
            st   == StagesOf(h)[i]
        IN  /\ runs[i].stage = i - 1
            /\ i < Len(runs) => runs[i].err = NoErr
            /\ AbortsAtFirstOverflow(runs[i], runs[i].block, <<seed.x, seed.y, seed.z>>,
                                     st.Sigma, st.Rho, st.Beta, st.Dt,
                                     runs[i].iterations, runs[i].discard)

\* C20: a trajectory checks the coordinates after every step, of the
\* warm-up and of the capture alike, and returns an error and no bytes at
\* the first step that takes a coordinate beyond the limit; compute then
\* returns "trajectory computation failed" with no result (no digest, no
\* checkpoint list), having run no stage after the failed one and none
\* twice, without finalizing or sleeping.
C20_InstabilityAborts ==
    /\ (ret.op = "trajectory" /\ ret.out.err \notin ValidationErrors) =>
          AbortsAtFirstOverflow(ret.out, ret.out.bytes,
                                <<ret.args.x0.v, ret.args.y0.v, ret.args.z0.v>>,
                                ret.args.sigma.v, ret.args.rho.v, ret.args.beta.v,
                                ret.args.dt.v, ret.args.iterations, ret.args.discard)
    /\ pc \in {"stage", "finish"} =>
          /\ RunsAbortAtOverflow(fr.runs, hasher)
          /\ \A i \in 1..Len(fr.runs) : fr.runs[i].err = NoErr
    /\ ret.op = "hash" =>
          /\ RunsAbortAtOverflow(ret.runs, hasher)
          /\ ret.err = "trajectory computation failed" <=>
                (ret.runs # <<>> /\ ret.runs[Len(ret.runs)].err # NoErr)
          /\ ret.err = "trajectory computation failed" =>
                /\ ret.result = Nil
                /\ ret.hash = NilBytes
                /\ ret.stagesRun = Len(ret.runs)
                /\ ret.saltCalls = 1
                /\ ret.finalized = NilBytes
                /\ ret.slept = 0
                /\ pc = "idle" /\ fr = NoFrame

\* C20 witness: a hash has failed in its third stage, whose warm-up took
\* a coordinate beyond the limit, and returned no result.
C20_Witness ==
    /\ ret.op = "hash"
    /\ ret.err = "trajectory computation failed"
    /\ Len(ret.runs) = 3
    /\ ret.runs[2].err = NoErr
    /\ ret.runs[3].err = "warm-up step failed"
    /\ ret.runs[3].steps < ret.runs[3].discard
    /\ Unstable(ret.runs[3].last)
    /\ ret.result = Nil

\* The key byte at stride k for the byte at 0-based index i.
KeyAt(key, k, i) == key[((k * i) % 32) + 1]

\* What round 3 of the finalizer is given for the block the stages ended
\* with: round 1 of block || master salt, mixed with the meta salt.
Round3Input(block, salt, hashSize) ==
    lorenzMix(SizedSum(hashSize, Cat(block, salt.MasterSalt)), salt.MetaSalt).out

\* Every byte XORed with the key bytes at strides 7, 13 and 17, then the
\* key byte at stride 17 added modulo 256.
ThreeXorsThenAdd(d, key) ==
    Filled([j \in 1..Len(d) |->
        (Xor(Xor(Xor(d[j], KeyAt(key, 7, j - 1)), KeyAt(key, 13, j - 1)),
             KeyAt(key, 17, j - 1))
         + KeyAt(key, 17, j - 1)) % 256])

\* Every byte XORed with the key bytes at strides 7 and 13, then the key
\* byte at stride 17 added modulo 256.
TwoXorsThenAdd(d, key) ==
    Filled([j \in 1..Len(d) |->
        (Xor(Xor(d[j], KeyAt(key, 7, j - 1)), KeyAt(key, 13, j - 1))
         + KeyAt(key, 17, j - 1)) % 256])

\* The final hash the rounds after round 3 make of its output r3.
AfterRound3(r3, salt, hashSize) ==
    ExactSize(SizedSum(hashSize, latticeMix(r3, salt.MasterSalt).out), hashSize \div 8)

\* C21 as stated: round 3 of the finalizer gives, for every byte of its
\* input, the byte XORed with the key bytes at strides 7, 13 and 17 and
\* then increased, modulo 256, by the key byte at stride 17 (the key being
\* the 256-bit hash of the timestamp salt), in an output of the length of
\* the input.
C21_ThreeXorsThenAdd ==
    Completed =>
        LET d   == Round3Input(ret.finalized, ret.result.Salt, hasher.hashSize)
            key == Sum256(ret.result.Salt.TimestampSalt)
        IN  hyperchaosMix(d, ret.result.Salt.TimestampSalt).out = ThreeXorsThenAdd(d, key)

\* C21 amended: round 3 of the finalizer gives, for every byte of its
\* input, the byte XORed with the key bytes at strides 7 and 13 and then
\* increased, modulo 256, by the key byte at stride 17, in an output of
\* the length of the input; the final hash is made of that output.
C21_TwoXorsThenAdd ==
    Completed =>
        LET d   == Round3Input(ret.finalized, ret.result.Salt, hasher.hashSize)
            key == Sum256(ret.result.Salt.TimestampSalt)
            r3  == hyperchaosMix(d, ret.result.Salt.TimestampSalt)
        IN  /\ Len(key) = 32
            /\ r3.err = NoErr
            /\ Len(r3.out) = Len(d)
            /\ Len(d) = hasher.hashSize \div 8
            /\ r3.out = TwoXorsThenAdd(d, key)
            /\ ret.result.Hash =
                  AfterRound3(TwoXorsThenAdd(d, key), ret.result.Salt, hasher.hashSize)

\* C21 witness: a hash of width 1024 was finalized; round 3 mixed 128
\* bytes, so every key index was met four times, and a byte at an index
\* past the key length differs from the XOR of the four bytes.
C21_Witness ==
    /\ ret.op = "hash" /\ ret.err = NoErr
    /\ hasher.hashSize = Size1024
    /\ LET d   == Round3Input(ret.finalized, ret.result.Salt, hasher.hashSize)
           key == Sum256(ret.result.Salt.TimestampSalt)
           out == hyperchaosMix(d, ret.result.Salt.TimestampSalt).out
       IN  /\ Len(out) = 128
           /\ out[41] = (Xor(Xor(d[41], key[25]), key[9]) + key[9]) % 256
           /\ out[41] # ThreeXorsThenAdd(d, key)[41]

\* The stored result had stage salts removed or one added.
FewerStageSalts == stored # Nil /\ origin.tamper = "fewer stage salts"

ExtraStageSalt == stored # Nil /\ origin.tamper = "extra stage salt"

\* C22: compute returns "insufficient stage salts" and no result when it
\* reaches a stage that has no stage salt, after the stages that have one;
\* hashing never meets it, its generated hierarchy having one stage salt
\* per stage; verification against a stored result with fewer stage salts
\* than stages returns an error, never (false, nil); a stage salt beyond
\* the stage count changes nothing in what verification does.
C22_InsufficientStageSalts ==
    /\ pc \in {"stage", "finish"} /\ fr.op \in {"hash", "simple"} =>
          Len(fr.salt.StageSalts) = Len(StagesOf(hasher))
    /\ ret.op \in {"hash", "simple"} =>
          /\ ret.err # "insufficient stage salts"
          /\ ret.cause # "insufficient stage salts"
          /\ ret.err = NoErr =>
                Len(ret.result.Salt.StageSalts) = Len(StagesOf(hasher))
    /\ ret.op = "verify" /\ FewerStageSalts =>
          /\ ret.err # NoErr
          /\ ret.result = Nil
          /\ ~ret.verdict
          /\ ret.stagesRun <= Len(stored.Salt.StageSalts)
          /\ ret.err = "recomputation failed"
          /\ ret.cause \in {"insufficient stage salts", "trajectory computation failed"}
          /\ ret.cause = "insufficient stage salts" <=>
                (ret.stagesRun = Len(stored.Salt.StageSalts)
                 /\ \A i \in 1..Len(ret.runs) : ret.runs[i].err = NoErr)
    /\ ret.op = "verify" /\ ret.cause = "insufficient stage salts" =>
          /\ FewerStageSalts
          /\ ret.finalized = NilBytes
          /\ ret.slept = 0
    /\ ret.op = "verify" /\ ExtraStageSalt =>
          LET n     == Len(StagesOf(hasher))
              exact == [stored EXCEPT !.Salt.StageSalts = SubSeq(@, 1, n)]
              alone == compute(hasher, ret.data, exact.Salt,
                               deriveAdaptiveParameters(ret.data, exact.Salt.MasterSalt),
                               ret.dt, 0)
          IN  /\ Len(stored.Salt.StageSalts) = n + 1
              /\ ret.cause # "insufficient stage salts"
              /\ ret.stagesRun <= n
              /\ ret.err = NoErr <=> alone.err = NoErr
              /\ ret.err = NoErr =>
                    /\ ret.result.Hash = alone.result.Hash
                    /\ ret.result.Checkpoints = alone.result.Checkpoints
                    /\ ret.verdict = Compare(alone.result, exact)
                    /\ ret.data = origin.data => ret.verdict

\* C22 witness: verification against a stored result of width 384 with two
\* of its three stage salts ran two stages and returned the error.
C22_Witness ==
    /\ ret.op = "verify"
    /\ FewerStageSalts
    /\ hasher.hashSize = Size384
    /\ Len(stored.Salt.StageSalts) = 2
    /\ ret.stagesRun = 2
    /\ ret.err = "recomputation failed"
    /\ ret.cause = "insufficient stage salts"
    /\ ret.result = Nil

\* The hierarchy salt has one stage salt for each of n stages, stage salt i
\* the hash chain of master || byte(i), and its meta salt is the hash chain
\* of master || timestamp salt || the stage salts in order.
DerivedFromMaster(salt, n) ==
    /\ Len(salt.StageSalts) = n
    /\ \A i \in 1..n :
          salt.StageSalts[i] =
             deriveSaltLR(Cat(salt.MasterSalt, <<i - 1>>), Len(salt.StageSalts[i]))
    /\ salt.MetaSalt =
          deriveSaltLR(Cat(Cat(salt.MasterSalt, salt.TimestampSalt),
                           Flatten(salt.StageSalts)),
                       Len(salt.MetaSalt))

\* Two hierarchies have the same stage salt at every stage index they share.
SameStageSalts(salt, against) ==
    \A i \in 1..Min2(Len(salt.StageSalts), Len(against.StageSalts)) :
       salt.StageSalts[i] = against.StageSalts[i]

\* C23: GenerateSaltHierarchy returns an error and no hierarchy for a stage
\* count outside [1, 10]; a hierarchy it returns for n stages has exactly
\* n stage salts, stage salt i depending only on master || byte(i) (the
\* same in a call for 1 or 10 stages at another hour), a meta salt that
\* is the hash chain of master || timestamp || all stage salts in order,
\* and as master salt the bytes the random source gave, unchanged.
C23_SaltHierarchyDerivation ==
    /\ ret.op = "salts" =>
          LET a == ret.args
          IN  /\ (a.numStages < 1 \/ a.numStages > 10) =>
                    ret.err = "invalid number of stages" /\ ret.salt = Nil
              /\ ret.err # NoErr => ret.salt = Nil
              /\ (a.numStages \in 1..10 /\ a.randOK /\ a.hashSize >= 0) =>
                    ret.err = NoErr
              /\ ret.err = NoErr =>
                    /\ a.numStages \in 1..10
                    /\ DerivedFromMaster(ret.salt, a.numStages)
                    /\ ret.salt.MasterSalt = RandRead(a.rnd, Len(ret.salt.MasterSalt))
                    /\ \A n \in {1, 10} :
                          SameStageSalts(ret.salt,
                             GenerateSaltHierarchy(n, a.hashSize, TRUE, a.rnd,
                                                   MaxHour - a.hr).salt)
    /\ ret.op = "hash" /\ ret.err = NoErr =>
          DerivedFromMaster(ret.result.Salt, Len(StagesOf(hasher)))

\* C23 witness: a call for 10 stages at hash size 1024 returned ten stage
\* salts that differ from one another.
C23_Witness ==
    /\ ret.op = "salts"
    /\ ret.args.numStages = 10
    /\ ret.args.hashSize = Size1024
    /\ ret.err = NoErr
    /\ Len(ret.salt.StageSalts) = 10
    /\ \A i, j \in 1..10 : i # j => ret.salt.StageSalts[i] # ret.salt.StageSalts[j]

====
